---- MODULE Spec2Model ----
(***************************************************************************)
(* State-machine model of the rustbroker backtest kernel (engine_rust):    *)
(* DataFeed, PortfolioState, ExecutionEngine, BacktestEngine and the       *)
(* per-bar loop of PyBacktestEngine::run_backtest.                         *)
(*                                                                         *)
(* Conventions.                                                            *)
(*  - A DateTime<Utc> is an integer tick; date_naive() is tick \div        *)
(*    TicksPerDay.                                                         *)
(*  - f64 amounts are modelled as exact integers: closes are multiples of  *)
(*    10, slippage_bps a multiple of 1000 and the rates whole percents, so *)
(*    every product the code forms is an integer and no rounding occurs.   *)
(*  - Option<T> is a sequence: <<>> is None, <<v>> is Some(v).             *)
(*  - A HashMap is a function whose DOMAIN is its key set.                 *)
(*  - Vec indices are 0-based as in the source; Vec element i is seq[i+1]. *)
(***************************************************************************)
EXTENDS Integers, Sequences, FiniteSets, TLC

VARIABLES
    datafeed,          \* BacktestEngine.datafeed : DataFeed
    execution_engine,  \* BacktestEngine.execution_engine : ExecutionEngine
    portfolio,         \* BacktestEngine.portfolio : PortfolioState
    config,            \* BacktestEngine.config : BacktestConfig
    indicator_engine,  \* BacktestEngine.indicator_engine : IndicatorEngine
    metrics,           \* BacktestEngine.metrics : MetricsRecorder
    cached_current_prices, \* BacktestEngine.cached_current_prices
    pc,                \* position of run_backtest in its body
    bar_fills,         \* run_backtest local `fills` of the current iteration
    trade_i,           \* run_backtest: index of the `for fill in &fills` loop
    step_log,          \* history: the steps run_backtest has taken, in order
    order_log,         \* history: where each add_order call was made
    exec_log,          \* history: one entry per order handled by execute_order
    next_id,           \* history: number of add_order calls so far
    strategy,          \* the strategy object handed to run_backtest
    run,               \* number of the run_backtest call in progress
    py_result          \* history: PyResult of the last PyBacktestEngine call

vars == <<datafeed, execution_engine, portfolio, config, indicator_engine, metrics,
          cached_current_prices, pc, bar_fills, trade_i, step_log, order_log, exec_log,
          next_id, strategy, run, py_result>>

(***************************************************************************)
(* Bounds of the model.                                                    *)
(***************************************************************************)
\* datetimes range over 0..MaxTime
MaxTime == 4
\* ticks per calendar day (date_naive)
TicksPerDay == 2
\* longest bar list handed to add_market_data / set_benchmark in SpecFeed
MaxFeedBars == 2
\* datetimes of those bars range over 0..MaxFeedTime
MaxFeedTime == 2
\* largest count passed to get_bars
MaxCount == 3
\* number of bars of the benchmark in Spec
NumBars == 3
\* most add_order calls in one behaviour of Spec
MaxOrders == 3
\* number of bars of the benchmark in SpecApi
ApiBars == 2
\* most add_order calls in one behaviour of SpecApi
MaxApiOrders == 2
\* latest tick of a bar in SpecInd
MaxIndTime == 2
\* number of bars of the benchmark in SpecInd
IndBars == 2
\* longest SMA period in SpecInd
MaxPeriod == 2

Symbols == {"X"}

None == <<>>
Some(v) == <<v>>
IsSome(o) == Len(o) > 0
Unwrap(o) == o[1]

Max(a, b) == IF a >= b THEN a ELSE b
Min(a, b) == IF a <= b THEN a ELSE b

\* DateTime::date_naive
date_naive(dt) == dt \div TicksPerDay

\* HashMap::insert
MapInsert(m, k, v) == [x \in (DOMAIN m) \cup {k} |-> IF x = k THEN v ELSE m[x]]

EmptyMap == [x \in {} |-> 0]

(***************************************************************************)
(* types.rs: a Bar is [datetime, close] (the fields the kernel reads).     *)
(***************************************************************************)
Bar(t, c) == [datetime |-> t, close |-> c]

(***************************************************************************)
(* datafeed.rs                                                             *)
(***************************************************************************)
DataFeed_new ==
    [benchmark_timeline |-> <<>>,
     benchmark_bars |-> <<>>,
     market_data |-> EmptyMap,
     current_index |-> 0,
     symbol_indices |-> EmptyMap,
     cached_current_bars |-> None]

\* Vec::sort_by_key(|b| b.datetime): a stable sort, as an insertion sort
RECURSIVE InsertSorted(_, _)
InsertSorted(sorted, b) ==
    IF sorted = <<>> THEN <<b>>
    ELSE IF Head(sorted).datetime <= b.datetime
         THEN <<Head(sorted)>> \o InsertSorted(Tail(sorted), b)
         ELSE <<b>> \o sorted

RECURSIVE sort_by_datetime(_)
sort_by_datetime(bars) ==
    IF bars = <<>> THEN <<>>
    ELSE InsertSorted(sort_by_datetime(SubSeq(bars, 1, Len(bars) - 1)), bars[Len(bars)])

\* the binary-search loop of _find_bar_index
RECURSIVE find_loop(_, _, _, _)
find_loop(bars, target_time, left, right) ==
    IF left < right
    THEN LET mid == (left + right) \div 2
         IN  IF bars[mid + 1].datetime <= target_time
             THEN find_loop(bars, target_time, mid + 1, right)
             ELSE find_loop(bars, target_time, left, mid)
    ELSE left

DataFeed_find_bar_index(bars, target_time) ==
    IF bars = <<>> THEN None
    ELSE LET left == find_loop(bars, target_time, 0, Len(bars))
         IN  IF left > 0 THEN Some(left - 1) ELSE None

DataFeed_update_symbol_index(df, symbol) ==
    IF df.current_index >= Len(df.benchmark_timeline) THEN df
    ELSE LET current_time == df.benchmark_timeline[df.current_index + 1]
         IN  IF symbol \in DOMAIN df.market_data
             THEN LET found == DataFeed_find_bar_index(df.market_data[symbol], current_time)
                  IN  IF IsSome(found)
                      THEN [df EXCEPT !.symbol_indices =
                                MapInsert(df.symbol_indices, symbol, Unwrap(found))]
                      ELSE df
             ELSE df

\* the loop of _update_all_symbol_indices over the keys of market_data
RECURSIVE update_indices_of(_, _)
update_indices_of(df, symbols) ==
    IF symbols = {} THEN df
    ELSE LET s == CHOOSE x \in symbols : TRUE
         IN  update_indices_of(DataFeed_update_symbol_index(df, s), symbols \ {s})

DataFeed_update_all_symbol_indices(df) ==
    update_indices_of(df, DOMAIN df.market_data)

DataFeed_add_market_data(df, symbol, bars) ==
    LET stored == [df EXCEPT !.market_data =
                       MapInsert(df.market_data, symbol, sort_by_datetime(bars))]
    IN  IF df.benchmark_timeline /= <<>>
        THEN DataFeed_update_symbol_index(stored, symbol)
        ELSE stored

DataFeed_set_benchmark(df, benchmark_bars) ==
    LET sorted_bars == sort_by_datetime(benchmark_bars)
    IN  DataFeed_update_all_symbol_indices(
            [df EXCEPT !.benchmark_timeline =
                           [i \in 1..Len(sorted_bars) |-> sorted_bars[i].datetime],
                       !.benchmark_bars = sorted_bars])

DataFeed_compute_current_bars(df) ==
    IF df.current_index >= Len(df.benchmark_timeline) THEN EmptyMap
    ELSE LET valid == {s \in DOMAIN df.market_data :
                          /\ s \in DOMAIN df.symbol_indices
                          /\ df.symbol_indices[s] < Len(df.market_data[s])}
         IN  [s \in valid |-> df.market_data[s][df.symbol_indices[s] + 1]]

DataFeed_get_current_bars(df) ==
    IF df.current_index >= Len(df.benchmark_timeline) THEN EmptyMap
    ELSE IF /\ IsSome(df.cached_current_bars)
            /\ Unwrap(df.cached_current_bars).idx = df.current_index
         THEN Unwrap(df.cached_current_bars).bars
         ELSE DataFeed_compute_current_bars(df)

\* usize::saturating_sub
saturating_sub(a, b) == Max(a - b, 0)

\* get_bars as an all-or-nothing window: nothing unless `count` bars exist
get_bars_all_or_nothing(df, symbol, count) ==
    IF df.current_index >= Len(df.benchmark_timeline) THEN <<>>
    ELSE IF symbol \notin DOMAIN df.market_data THEN <<>>
    ELSE IF symbol \notin DOMAIN df.symbol_indices THEN <<>>
    ELSE LET bars == df.market_data[symbol]
             current_bar_idx == df.symbol_indices[symbol]
             end_idx == current_bar_idx + 1
         IN  IF end_idx > Len(bars) \/ end_idx < count THEN <<>>
             ELSE SubSeq(bars, end_idx - count + 1, end_idx)

DataFeed_get_bars(df, symbol, count) ==
    IF df.current_index >= Len(df.benchmark_timeline) THEN <<>>
    ELSE IF symbol \notin DOMAIN df.market_data THEN <<>>
    ELSE IF symbol \notin DOMAIN df.symbol_indices THEN <<>>
    ELSE LET bars == df.market_data[symbol]
             current_bar_idx == df.symbol_indices[symbol]
             start_idx == saturating_sub(current_bar_idx, saturating_sub(count, 1))
             end_idx == current_bar_idx + 1
         IN  IF end_idx > Len(bars) THEN <<>>
             ELSE SubSeq(bars, start_idx + 1, end_idx)

DataFeed_get_current_bar(df, symbol) ==
    IF df.current_index >= Len(df.benchmark_timeline) THEN None
    ELSE IF symbol \notin DOMAIN df.market_data THEN None
    ELSE IF symbol \notin DOMAIN df.symbol_indices THEN None
    ELSE IF df.symbol_indices[symbol] < Len(df.market_data[symbol])
         THEN Some(df.market_data[symbol][df.symbol_indices[symbol] + 1])
         ELSE None

DataFeed_get_current_datetime(df) ==
    IF df.current_index < Len(df.benchmark_timeline)
    THEN Some(df.benchmark_timeline[df.current_index + 1])
    ELSE None

DataFeed_get_current_benchmark_bar(df) ==
    IF df.current_index < Len(df.benchmark_bars)
    THEN Some(df.benchmark_bars[df.current_index + 1])
    ELSE None

DataFeed_get_initial_benchmark_bar(df) ==
    IF df.benchmark_bars # <<>> THEN Some(df.benchmark_bars[1]) ELSE None

\* has_next one bar short: the loop leaves before the last bar
has_next_before_last(df) == df.current_index + 1 < Len(df.benchmark_timeline)

DataFeed_has_next(df) == df.current_index < Len(df.benchmark_timeline)

DataFeed_get_symbols(df) == DOMAIN df.market_data

DataFeed_get_all_bars_for_symbol(df, symbol) ==
    IF symbol \in DOMAIN df.market_data THEN df.market_data[symbol] ELSE <<>>

\* the cursor loop with a strict comparison: it stops before a bar stamped
\* exactly current_time
RECURSIVE advance_cursor_strict(_, _, _)
advance_cursor_strict(bars, current_idx, current_time) ==
    IF current_idx + 1 < Len(bars) /\ bars[current_idx + 2].datetime < current_time
    THEN advance_cursor_strict(bars, current_idx + 1, current_time)
    ELSE current_idx

\* the `while` of DataFeed::next that advances one symbol's cursor
RECURSIVE advance_cursor(_, _, _)
advance_cursor(bars, current_idx, current_time) ==
    IF current_idx + 1 < Len(bars) /\ bars[current_idx + 2].datetime <= current_time
    THEN advance_cursor(bars, current_idx + 1, current_time)
    ELSE current_idx

\* the loop of DataFeed::next without its `else` arm: a symbol that had no
\* cursor is never given one
RECURSIVE next_indices_advancing_only(_, _, _)
next_indices_advancing_only(df, symbols, current_time) ==
    IF symbols = {} THEN df
    ELSE LET s == CHOOSE x \in symbols : TRUE
             stepped ==
                 IF s \in DOMAIN df.symbol_indices
                 THEN [df EXCEPT !.symbol_indices[s] =
                           advance_cursor(df.market_data[s], df.symbol_indices[s],
                                          current_time)]
                 ELSE df
         IN  next_indices_advancing_only(stepped, symbols \ {s}, current_time)

\* the `for symbol in symbols` loop of DataFeed::next
RECURSIVE next_indices_of(_, _, _)
next_indices_of(df, symbols, current_time) ==
    IF symbols = {} THEN df
    ELSE LET s == CHOOSE x \in symbols : TRUE
             bars == df.market_data[s]
             stepped ==
                 IF s \in DOMAIN df.symbol_indices
                 THEN [df EXCEPT !.symbol_indices[s] =
                           advance_cursor(bars, df.symbol_indices[s], current_time)]
                 ELSE LET found == DataFeed_find_bar_index(bars, current_time)
                      IN  IF IsSome(found)
                          THEN [df EXCEPT !.symbol_indices =
                                    MapInsert(df.symbol_indices, s, Unwrap(found))]
                          ELSE df
         IN  next_indices_of(stepped, symbols \ {s}, current_time)

\* next() that fills the cache before it advances the cursors
next_caching_before_advance(df) ==
    IF df.current_index < Len(df.benchmark_timeline)
    THEN LET moved == [df EXCEPT !.current_index = df.current_index + 1]
         IN  IF moved.current_index < Len(moved.benchmark_timeline)
             THEN LET current_time == moved.benchmark_timeline[moved.current_index + 1]
                      advanced == next_indices_of(moved, DOMAIN moved.market_data, current_time)
                  IN  [advanced EXCEPT !.cached_current_bars =
                           Some([idx |-> advanced.current_index,
                                 bars |-> DataFeed_compute_current_bars(moved)])]
             ELSE [moved EXCEPT !.cached_current_bars = None]
    ELSE df

DataFeed_next(df) ==
    IF df.current_index < Len(df.benchmark_timeline)
    THEN LET moved == [df EXCEPT !.current_index = df.current_index + 1]
         IN  IF moved.current_index < Len(moved.benchmark_timeline)
             THEN LET current_time == moved.benchmark_timeline[moved.current_index + 1]
                      advanced == next_indices_of(moved, DOMAIN moved.market_data, current_time)
                  IN  [advanced EXCEPT !.cached_current_bars =
                           Some([idx |-> advanced.current_index,
                                 bars |-> DataFeed_compute_current_bars(advanced)])]
             ELSE [moved EXCEPT !.cached_current_bars = None]
    ELSE df

DataFeed_reset(df) ==
    LET seeded == DataFeed_update_all_symbol_indices([df EXCEPT !.current_index = 0])
    IN  [seeded EXCEPT !.cached_current_bars =
             Some([idx |-> 0, bars |-> DataFeed_compute_current_bars(seeded)])]

(***************************************************************************)
(* types.rs: PortfolioState.                                               *)
(*  An Order is [symbol, side, quantity_type, quantity, timestamp, id] and *)
(*  a Fill is [symbol, side, quantity, price, commission, timestamp,       *)
(*  order_id]; id / order_id are history fields (the number of the         *)
(*  add_order call), not fields of the source structs.  A Position is      *)
(*  [quantity, market_value]; a BuyRecord is [date, quantity, price].      *)
(*  commission_rate and stamp_tax_rate are in percent, order quantities of *)
(*  type Weight in percent of equity.                                      *)
(***************************************************************************)
PortfolioState_new(initial_cash, t0_symbols) ==
    [cash |-> initial_cash,
     positions |-> EmptyMap,
     buy_records |-> EmptyMap,
     fills |-> <<>>,
     t0_symbols |-> t0_symbols]

RECURSIVE SumQuantity(_)
SumQuantity(records) ==
    IF records = <<>> THEN 0
    ELSE Head(records).quantity + SumQuantity(Tail(records))

\* get_available without the clamp at zero
get_available_unclamped(pf, symbol, current_date) ==
    IF symbol \notin DOMAIN pf.positions THEN 0
    ELSE LET position == pf.positions[symbol].quantity
         IN  IF symbol \in pf.t0_symbols THEN position
             ELSE LET today_buys ==
                          IF symbol \in DOMAIN pf.buy_records
                          THEN SumQuantity(SelectSeq(pf.buy_records[symbol],
                                                     LAMBDA r : r.date = current_date))
                          ELSE 0
                  IN  position - today_buys

\* get_available that treats every symbol as a t0 symbol
get_available_ignoring_buy_records(pf, symbol, current_date) ==
    IF symbol \notin DOMAIN pf.positions THEN 0
    ELSE pf.positions[symbol].quantity

get_available(pf, symbol, current_date) ==
    IF symbol \notin DOMAIN pf.positions THEN 0
    ELSE LET position == pf.positions[symbol].quantity
         IN  IF symbol \in pf.t0_symbols THEN position
             ELSE LET today_buys ==
                          IF symbol \in DOMAIN pf.buy_records
                          THEN SumQuantity(SelectSeq(pf.buy_records[symbol],
                                                     LAMBDA r : r.date = current_date))
                          ELSE 0
                  IN  Max(position - today_buys, 0)

\* the per-position term of calculate_equity
PositionValue(pf, symbol, current_prices) ==
    IF symbol \in DOMAIN current_prices
    THEN pf.positions[symbol].quantity * current_prices[symbol] * 100
    ELSE pf.positions[symbol].market_value

RECURSIVE SumPositions(_, _, _)
SumPositions(pf, symbols, current_prices) ==
    IF symbols = {} THEN 0
    ELSE LET s == CHOOSE x \in symbols : TRUE
         IN  PositionValue(pf, s, current_prices)
             + SumPositions(pf, symbols \ {s}, current_prices)

calculate_equity(pf, current_prices) ==
    pf.cash + SumPositions(pf, DOMAIN pf.positions, current_prices)

\* the predicate of `retain` in update_t1_availability
retain_record(r, current_date) == r.date = current_date

\* a sweep that empties the fills list next to the buy records it drops
update_t1_clearing_fills(pf, current_date) ==
    [pf EXCEPT !.buy_records =
                   [s \in DOMAIN pf.buy_records |->
                       SelectSeq(pf.buy_records[s], LAMBDA r : retain_record(r, current_date))],
               !.fills = <<>>]

update_t1_availability(pf, current_date) ==
    [pf EXCEPT !.buy_records =
        [s \in DOMAIN pf.buy_records |->
            SelectSeq(pf.buy_records[s], LAMBDA r : retain_record(r, current_date))]]

(***************************************************************************)
(* execution_engine.rs                                                     *)
(***************************************************************************)
ExecutionEngine_new(commission_rate, min_commission, slippage_bps, stamp_tax_rate) ==
    [orders |-> <<>>,
     commission_rate |-> commission_rate,
     min_commission |-> min_commission,
     slippage_bps |-> slippage_bps,
     stamp_tax_rate |-> stamp_tax_rate]

ExecutionEngine_add_order(ee, order) ==
    [ee EXCEPT !.orders = Append(ee.orders, order)]

add_position(pf, symbol, quantity, price, trade_date) ==
    LET old == IF symbol \in DOMAIN pf.positions
               THEN pf.positions[symbol]
               ELSE [quantity |-> 0, market_value |-> 0]
        grown == [pf EXCEPT !.positions =
                     MapInsert(pf.positions, symbol,
                               [old EXCEPT !.quantity = old.quantity + quantity])]
    IN  IF symbol \notin pf.t0_symbols
        THEN LET records == IF symbol \in DOMAIN pf.buy_records
                            THEN pf.buy_records[symbol] ELSE <<>>
             IN  [grown EXCEPT !.buy_records =
                     MapInsert(pf.buy_records, symbol,
                               Append(records, [date |-> trade_date,
                                                quantity |-> quantity,
                                                price |-> price]))]
        ELSE grown

\* reduce_position: the portfolio after the call and the released cash it returns
reduce_position(pf, symbol, quantity, price) ==
    IF symbol \notin DOMAIN pf.positions THEN [portfolio |-> pf, released |-> 0]
    ELSE IF quantity > pf.positions[symbol].quantity THEN [portfolio |-> pf, released |-> 0]
    ELSE LET left == pf.positions[symbol].quantity - quantity
             positions == IF left <= 0
                          THEN [s \in (DOMAIN pf.positions) \ {symbol} |-> pf.positions[s]]
                          ELSE [pf.positions EXCEPT ![symbol].quantity = left]
         IN  [portfolio |-> [pf EXCEPT !.positions = positions],
              released |-> quantity * price * 100]

calculate_fill_price(ee, side, base_price) ==
    IF side = "Buy"
    THEN (base_price * (10000 + ee.slippage_bps)) \div 10000
    ELSE (base_price * (10000 - ee.slippage_bps)) \div 10000

\* a commission whose floor is applied to the total, stamp tax included
calculate_commission_floor_on_total(ee, trade_amount, side) ==
    IF side = "Buy"
    THEN Max((trade_amount * ee.commission_rate) \div 100, ee.min_commission)
    ELSE Max((trade_amount * ee.commission_rate) \div 100
                 + (trade_amount * ee.stamp_tax_rate) \div 100,
             ee.min_commission)

calculate_commission(ee, trade_amount, side) ==
    LET base_commission == Max((trade_amount * ee.commission_rate) \div 100, ee.min_commission)
    IN  IF side = "Buy" THEN base_commission
        ELSE base_commission + (trade_amount * ee.stamp_tax_rate) \div 100

\* round_to_lot applied to amount / fill_price: floor((amount / fill_price) / 100)
round_to_lot(amount, fill_price) == amount \div (fill_price * 100)

\* the quantity_lots match of execute_order
quantity_lots_of(order, fill_price, current_bars, pf) ==
    CASE order.quantity_type = "Count" -> order.quantity
      [] order.quantity_type = "Cash" -> round_to_lot(order.quantity, fill_price)
      [] order.quantity_type = "Weight" ->
            LET current_prices == [s \in DOMAIN current_bars |-> current_bars[s].close]
                equity == calculate_equity(pf, current_prices)
                current_position == IF order.symbol \in DOMAIN pf.positions
                                    THEN pf.positions[order.symbol].market_value
                                    ELSE 0
            IN  (equity * order.quantity - 100 * current_position)
                    \div (fill_price * 10000)

\* a Sell that credits the commission instead of charging it
sell_cash_adding_commission(released_cash, commission) == released_cash + commission

\* the cash a Sell adds to portfolio.cash
sell_cash(released_cash, commission) == released_cash - commission

\* execute_order rejecting also the Buy whose cost plus commission equals the cash
execute_order_needing_spare_cash(ee, order, current_bars, pf) ==
    IF order.symbol \notin DOMAIN current_bars THEN [portfolio |-> pf, fill |-> None]
    ELSE
    LET base_price == current_bars[order.symbol].close
        fill_price == calculate_fill_price(ee, order.side, base_price)
        quantity_lots == quantity_lots_of(order, fill_price, current_bars, pf)
        trade_date == date_naive(order.timestamp)
        trade_amount == quantity_lots * fill_price * 100
        commission == calculate_commission(ee, trade_amount, order.side)
        rejected == IF order.side = "Sell"
                    THEN quantity_lots > get_available(pf, order.symbol, trade_date)
                    ELSE trade_amount + commission >= pf.cash
        fill == [symbol |-> order.symbol, side |-> order.side,
                 quantity |-> quantity_lots, price |-> fill_price,
                 commission |-> commission, timestamp |-> order.timestamp,
                 order_id |-> order.id]
    IN  IF quantity_lots <= 0 THEN [portfolio |-> pf, fill |-> None]
        ELSE IF rejected THEN [portfolio |-> pf, fill |-> None]
        ELSE IF order.side = "Buy"
        THEN [portfolio |->
                  add_position([pf EXCEPT !.cash = pf.cash - (trade_amount + commission)],
                               order.symbol, quantity_lots, fill_price, trade_date),
              fill |-> Some(fill)]
        ELSE LET reduced == reduce_position(pf, order.symbol, quantity_lots, fill_price)
             IN  [portfolio |->
                      [reduced.portfolio EXCEPT !.cash =
                          reduced.portfolio.cash + sell_cash(reduced.released, commission)],
                  fill |-> Some(fill)]

\* execute_order: the portfolio after the call and the Option<Fill> it returns
execute_order(ee, order, current_bars, pf) ==
    IF order.symbol \notin DOMAIN current_bars THEN [portfolio |-> pf, fill |-> None]
    ELSE
    LET base_price == current_bars[order.symbol].close
        fill_price == calculate_fill_price(ee, order.side, base_price)
        quantity_lots == quantity_lots_of(order, fill_price, current_bars, pf)
        trade_date == date_naive(order.timestamp)
        trade_amount == quantity_lots * fill_price * 100
        commission == calculate_commission(ee, trade_amount, order.side)
        rejected == IF order.side = "Sell"
                    THEN quantity_lots > get_available(pf, order.symbol, trade_date)
                    ELSE trade_amount + commission > pf.cash
        fill == [symbol |-> order.symbol, side |-> order.side,
                 quantity |-> quantity_lots, price |-> fill_price,
                 commission |-> commission, timestamp |-> order.timestamp,
                 order_id |-> order.id]
    IN  IF quantity_lots <= 0 THEN [portfolio |-> pf, fill |-> None]
        ELSE IF rejected THEN [portfolio |-> pf, fill |-> None]
        ELSE IF order.side = "Buy"
        THEN [portfolio |->
                  add_position([pf EXCEPT !.cash = pf.cash - (trade_amount + commission)],
                               order.symbol, quantity_lots, fill_price, trade_date),
              fill |-> Some(fill)]
        ELSE LET reduced == reduce_position(pf, order.symbol, quantity_lots, fill_price)
             IN  [portfolio |->
                      [reduced.portfolio EXCEPT !.cash =
                          reduced.portfolio.cash + sell_cash(reduced.released, commission)],
                  fill |-> Some(fill)]

\* the comparator of the sort in execute_all_orders: TRUE when a must come after b
side_greater(a, b) == a.side = "Buy" /\ b.side = "Sell"

\* Vec::sort_by with that comparator: stable, as an insertion sort
RECURSIVE InsertBySide(_, _)
InsertBySide(sorted, o) ==
    IF sorted = <<>> THEN <<o>>
    ELSE IF side_greater(Head(sorted), o)
         THEN <<o>> \o sorted
         ELSE <<Head(sorted)>> \o InsertBySide(Tail(sorted), o)

RECURSIVE sort_by_side(_)
sort_by_side(orders) ==
    IF orders = <<>> THEN <<>>
    ELSE InsertBySide(sort_by_side(SubSeq(orders, 1, Len(orders) - 1)), orders[Len(orders)])

\* a loop over the orders of one side that breaks after its first fill
RECURSIVE execute_side_first_fill_only(_, _, _, _, _)
execute_side_first_fill_only(ee, orders, side, current_bars, acc) ==
    IF orders = <<>> THEN acc
    ELSE LET order == Head(orders)
         IN  IF order.side = side
             THEN LET r == execute_order(ee, order, current_bars, acc.portfolio)
                      next_acc == [portfolio |-> r.portfolio,
                                   fills |-> IF IsSome(r.fill)
                                             THEN Append(acc.fills, Unwrap(r.fill))
                                             ELSE acc.fills,
                                   handled |-> Append(acc.handled,
                                                  [id |-> order.id, filled |-> IsSome(r.fill)])]
                  IN  IF IsSome(r.fill) THEN next_acc
                      ELSE execute_side_first_fill_only(ee, Tail(orders), side,
                                                        current_bars, next_acc)
             ELSE execute_side_first_fill_only(ee, Tail(orders), side, current_bars, acc)

\* one `for order in &self.orders.clone()` loop of execute_all_orders over the
\* orders of one side; acc is [portfolio, fills, handled]
RECURSIVE execute_side(_, _, _, _, _)
execute_side(ee, orders, side, current_bars, acc) ==
    IF orders = <<>> THEN acc
    ELSE LET order == Head(orders)
         IN  IF order.side = side
             THEN LET r == execute_order(ee, order, current_bars, acc.portfolio)
                  IN  execute_side(ee, Tail(orders), side, current_bars,
                          [portfolio |-> r.portfolio,
                           fills |-> IF IsSome(r.fill)
                                     THEN Append(acc.fills, Unwrap(r.fill))
                                     ELSE acc.fills,
                           handled |-> Append(acc.handled,
                                          [id |-> order.id, filled |-> IsSome(r.fill)])])
             ELSE execute_side(ee, Tail(orders), side, current_bars, acc)

\* execute_all_orders with the two loops exchanged: Buys before Sells
execute_all_orders_buys_first(ee, current_bars, pf) ==
    LET sorted == sort_by_side(ee.orders)
        buys == execute_side(ee, sorted, "Buy", current_bars,
                             [portfolio |-> pf, fills |-> <<>>, handled |-> <<>>])
        sells == execute_side(ee, sorted, "Sell", current_bars, buys)
    IN  [engine |-> [ee EXCEPT !.orders = <<>>],
         portfolio |-> sells.portfolio,
         fills |-> sells.fills,
         handled |-> sells.handled]

\* execute_all_orders that leaves the orders it rejected in the queue
execute_all_orders_keeping_rejected(ee, current_bars, pf) ==
    LET sorted == sort_by_side(ee.orders)
        sells == execute_side(ee, sorted, "Sell", current_bars,
                              [portfolio |-> pf, fills |-> <<>>, handled |-> <<>>])
        buys == execute_side(ee, sorted, "Buy", current_bars, sells)
        rejected(o) == \E k \in 1..Len(buys.handled) :
                           buys.handled[k].id = o.id /\ ~buys.handled[k].filled
    IN  [engine |-> [ee EXCEPT !.orders = SelectSeq(sorted, rejected)],
         portfolio |-> buys.portfolio,
         fills |-> buys.fills,
         handled |-> buys.handled]

\* execute_all_orders: the engine and portfolio after the call, the fills it
\* returns, and (history) the orders execute_order was called on, in call order
execute_all_orders(ee, current_bars, pf) ==
    LET sorted == sort_by_side(ee.orders)
        sells == execute_side(ee, sorted, "Sell", current_bars,
                              [portfolio |-> pf, fills |-> <<>>, handled |-> <<>>])
        buys == execute_side(ee, sorted, "Buy", current_bars, sells)
    IN  [engine |-> [ee EXCEPT !.orders = <<>>],
         portfolio |-> buys.portfolio,
         fills |-> buys.fills,
         handled |-> buys.handled]

(***************************************************************************)
(* metrics_recorder.rs                                                     *)
(***************************************************************************)
MetricsRecorder_new ==
    [equity_curve |-> <<>>, fills |-> <<>>, benchmark_curve |-> <<>>]

EquityPoint(datetime, equity) == [datetime |-> datetime, equity |-> equity]

MetricsRecorder_record_equity(m, datetime, equity) ==
    [m EXCEPT !.equity_curve = Append(@, EquityPoint(datetime, equity))]

\* record_benchmark that records nothing
record_benchmark_dropped(m, datetime, equity) == m

MetricsRecorder_record_benchmark(m, datetime, equity) ==
    [m EXCEPT !.benchmark_curve = Append(@, EquityPoint(datetime, equity))]

MetricsRecorder_record_fills(m, fills) ==
    [m EXCEPT !.fills = @ \o fills]

(***************************************************************************)
(* indicator_engine.rs                                                     *)
(***************************************************************************)
IndicatorEngine_new ==
    [indicators |-> EmptyMap, indicator_values |-> EmptyMap, current_index |-> 0]

\* update_index that leaves the cursor where it is
update_index_ignored(ie, index) == ie

IndicatorEngine_update_index(ie, index) == [ie EXCEPT !.current_index = index]

\* f64::NAN, in the [sum, n] form of the values: 0.0 / 0.0
NaN == [sum |-> 0, n |-> 0]

is_nan(v) == v.n = 0

\* an IndicatorDef; params holds the "period" and "field" entries as Options
RustBuiltin(name, period, field, lookback_period) ==
    [kind |-> "RustBuiltin", name |-> name,
     params |-> [period |-> period, field |-> field],
     lookback_period |-> lookback_period]

PythonFunction(name, lookback_period) ==
    [kind |-> "PythonFunction", name |-> name, lookback_period |-> lookback_period]

IndicatorEngine_register_indicator(ie, name, def) ==
    [ie EXCEPT !.indicators = MapInsert(ie.indicators, name, def)]

IndicatorEngine_has_indicators(ie) == DOMAIN ie.indicators # {}

\* str::parse::<usize> on the decimal strings the model uses
Decimals == <<"1", "2", "3", "4", "5", "6", "7", "8", "9">>

parse_usize(str) ==
    IF \E n \in 1..Len(Decimals) : Decimals[n] = str
    THEN Some(CHOOSE n \in 1..Len(Decimals) : Decimals[n] = str)
    ELSE None

\* params.get("period").and_then(|s| s.parse().ok()).unwrap_or(lookback)
period_of(def) ==
    IF IsSome(def.params.period) /\ IsSome(parse_usize(Unwrap(def.params.period)))
    THEN Unwrap(parse_usize(Unwrap(def.params.period)))
    ELSE def.lookback_period

\* params.get("field").unwrap_or("close")
field_of(def) == IF IsSome(def.params.field) THEN Unwrap(def.params.field) ELSE "close"

\* the field tags the match on `field` accepts; the model's Bar carries close
FieldTags == {"close"}

field_values_of(all_bars, field) == [k \in 1..Len(all_bars) |-> all_bars[k].close]

\* ta::indicators::SimpleMovingAverage::new: Err on a zero period
SimpleMovingAverage_new(period) ==
    IF period = 0 THEN None
    ELSE Some([period |-> period, index |-> 0, count |-> 0, sum |-> 0,
               deque |-> [k \in 1..period |-> 0]])

\* a running mean over everything seen so far, the window never sliding
cumulative_average_next(sma, input) ==
    [state |-> [sma EXCEPT !.count = sma.count + 1, !.sum = sma.sum + input],
     value |-> [sum |-> sma.sum + input, n |-> sma.count + 1]]

\* SimpleMovingAverage::next: the state after the call and the value returned,
\* the f64 sum / count kept as the pair [sum, n]
SimpleMovingAverage_next(sma, input) ==
    LET old_val == sma.deque[sma.index + 1]
        count == IF sma.count < sma.period THEN sma.count + 1 ELSE sma.count
        sum == sma.sum - old_val + input
    IN  [state |-> [sma EXCEPT !.deque[sma.index + 1] = input,
                               !.index = IF sma.index + 1 < sma.period
                                         THEN sma.index + 1 ELSE 0,
                               !.count = count,
                               !.sum = sum],
         value |-> [sum |-> sum, n |-> count]]

\* `for &value in &field_values { sma_values.push(sma.next(value)) }`
RECURSIVE sma_values_of(_, _)
sma_values_of(field_values, sma) ==
    IF field_values = <<>> THEN <<>>
    ELSE LET r == SimpleMovingAverage_next(sma, Head(field_values))
         IN  <<r.value>> \o sma_values_of(Tail(field_values), r.state)

\* the cursor loop reading one bar past current_time
RECURSIVE advance_bar_idx_one_ahead(_, _, _)
advance_bar_idx_one_ahead(all_bars, bar_idx, current_time) ==
    IF bar_idx < Len(all_bars)
       /\ (bar_idx = 0 \/ all_bars[bar_idx].datetime <= current_time)
    THEN advance_bar_idx_one_ahead(all_bars, bar_idx + 1, current_time)
    ELSE bar_idx

\* `while bar_idx < all_bars.len() && all_bars[bar_idx].datetime <= current_time`
RECURSIVE advance_bar_idx(_, _, _)
advance_bar_idx(all_bars, bar_idx, current_time) ==
    IF bar_idx < Len(all_bars) /\ all_bars[bar_idx + 1].datetime <= current_time
    THEN advance_bar_idx(all_bars, bar_idx + 1, current_time)
    ELSE bar_idx

\* `for i in 0..timeline_len` of the sma branch, from index i with cursor bar_idx
RECURSIVE aligned_values(_, _, _, _, _, _)
aligned_values(all_bars, timeline, sma_values, period, i, bar_idx) ==
    IF i >= Len(timeline) THEN <<>>
    ELSE LET idx == advance_bar_idx(all_bars, bar_idx, timeline[i + 1])
             value == IF idx = 0 \/ idx - 1 < period - 1
                      THEN NaN
                      ELSE sma_values[idx]
         IN  <<value>> \o aligned_values(all_bars, timeline, sma_values, period, i + 1, idx)

all_nan(timeline_len) == [i \in 1..timeline_len |-> NaN]

\* SimpleMovingAverage::new(period), or new(lookback.max(1)) when that fails
sma_for(period, lookback) ==
    IF IsSome(SimpleMovingAverage_new(period))
    THEN Unwrap(SimpleMovingAverage_new(period))
    ELSE Unwrap(SimpleMovingAverage_new(Max(lookback, 1)))

\* the values compute_all_indicators stores for one indicator and symbol
indicator_series(def, all_bars, timeline) ==
    IF all_bars = <<>> THEN all_nan(Len(timeline))
    ELSE IF def.kind = "RustBuiltin"
    THEN IF def.name = "sma"
         THEN IF field_of(def) \notin FieldTags THEN all_nan(Len(timeline))
              ELSE aligned_values(all_bars, timeline,
                       sma_values_of(field_values_of(all_bars, field_of(def)),
                                     sma_for(period_of(def), def.lookback_period)),
                       period_of(def), 0, 0)
         ELSE all_nan(Len(timeline))
    ELSE all_nan(Len(timeline))

IndicatorEngine_compute_all_indicators(ie, df) ==
    [ie EXCEPT !.indicator_values =
        [key \in (DOMAIN ie.indicators) \X DataFeed_get_symbols(df) |->
            indicator_series(ie.indicators[key[1]],
                             DataFeed_get_all_bars_for_symbol(df, key[2]),
                             df.benchmark_timeline)]]

\* get_indicator_value: the Option<f64> returned and the indices of the
\* series it read
IndicatorEngine_get_indicator_value(ie, name, symbol) ==
    IF <<name, symbol>> \notin DOMAIN ie.indicator_values
    THEN [result |-> None, read |-> {}]
    ELSE LET values == ie.indicator_values[<<name, symbol>>]
         IN  IF ie.current_index >= Len(values) THEN [result |-> None, read |-> {}]
             ELSE [result |-> IF is_nan(values[ie.current_index + 1]) THEN None
                              ELSE Some(values[ie.current_index + 1]),
                   read |-> {ie.current_index}]

\* NaN filtered out of the slice for every count, a count of 1 included
get_indicator_value_count_filtering(ie, name, symbol, count) ==
    IF <<name, symbol>> \notin DOMAIN ie.indicator_values
    THEN [result |-> None, read |-> {}]
    ELSE LET values == ie.indicator_values[<<name, symbol>>]
             start_idx == saturating_sub(ie.current_index, saturating_sub(count, 1))
             end_idx == ie.current_index + 1
             slice == SubSeq(values, start_idx + 1, Min(end_idx, Len(values)))
             result == SelectSeq(slice, LAMBDA v : ~is_nan(v))
         IN  IF ie.current_index >= Len(values) THEN [result |-> None, read |-> {}]
             ELSE IF start_idx >= Len(values) THEN [result |-> None, read |-> {}]
             ELSE [result |-> IF result = <<>> THEN None ELSE Some(result),
                   read |-> start_idx..(Min(end_idx, Len(values)) - 1)]

\* get_indicator_value_count: the Option<Vec<f64>> returned and the indices
\* of the series it read
IndicatorEngine_get_indicator_value_count(ie, name, symbol, count) ==
    IF <<name, symbol>> \notin DOMAIN ie.indicator_values
    THEN [result |-> None, read |-> {}]
    ELSE LET values == ie.indicator_values[<<name, symbol>>]
             start_idx == saturating_sub(ie.current_index, saturating_sub(count, 1))
             end_idx == ie.current_index + 1
             slice == SubSeq(values, start_idx + 1, Min(end_idx, Len(values)))
             result == SelectSeq(slice, LAMBDA v : ~is_nan(v))
         IN  IF ie.current_index >= Len(values) THEN [result |-> None, read |-> {}]
             ELSE IF start_idx >= Len(values) THEN [result |-> None, read |-> {}]
             ELSE IF count = 1
                  THEN [result |-> Some(<<slice[1]>>), read |-> {start_idx}]
                  ELSE [result |-> IF result = <<>> THEN None ELSE Some(result),
                        read |-> start_idx..(Min(end_idx, Len(values)) - 1)]

(***************************************************************************)
(* engine.rs: BacktestEngine and PyBacktestEngine.  The fields of the      *)
(* engine are the variables; each method is an action over them.           *)
(***************************************************************************)
\* BacktestEngine::new
BacktestEngine_new(cfg) ==
    /\ config = cfg
    /\ execution_engine = ExecutionEngine_new(cfg.commission_rate, cfg.min_commission,
                                               cfg.slippage_bps, cfg.stamp_tax_rate)
    /\ portfolio = PortfolioState_new(cfg.cash, cfg.t0_symbols)
    /\ indicator_engine = IndicatorEngine_new
    /\ metrics = MetricsRecorder_new
    /\ cached_current_prices = None

\* the order stamped with the datetime of the bar that will price it
timestamp_of_next_bar(df, now) ==
    IF df.current_index + 1 < Len(df.benchmark_timeline)
    THEN df.benchmark_timeline[df.current_index + 2]
    ELSE now

\* the timestamp of PyBacktestEngine::add_order: the current datetime, or
\* Utc::now() past the end of the timeline
order_timestamp(df, now) ==
    IF IsSome(DataFeed_get_current_datetime(df))
    THEN Unwrap(DataFeed_get_current_datetime(df))
    ELSE now

\* PyBacktestEngine::add_order
PyBacktestEngine_add_order(symbol, side, quantity, quantity_type, now) ==
    /\ execution_engine' = ExecutionEngine_add_order(execution_engine,
           [symbol |-> symbol, side |-> side, quantity_type |-> quantity_type,
            quantity |-> quantity, timestamp |-> order_timestamp(datafeed, now),
            id |-> next_id])
    /\ next_id' = next_id + 1
    /\ order_log' = Append(order_log, [cb |-> pc, bar |-> datafeed.current_index])

\* the bars BacktestEngine::execute_orders matches against
execution_bars(df) == DataFeed_get_current_bars(df)

\* BacktestEngine::execute_orders; bar_fills is the Vec<Fill> it returns
BacktestEngine_execute_orders ==
    LET r == execute_all_orders(execution_engine, execution_bars(datafeed), portfolio)
    IN  /\ execution_engine' = r.engine
        /\ portfolio' = [r.portfolio EXCEPT !.fills = portfolio.fills \o r.fills]
        /\ metrics' = MetricsRecorder_record_fills(metrics, r.fills)
        /\ bar_fills' = r.fills
        /\ exec_log' = exec_log \o
               [k \in 1..Len(r.handled) |->
                   [id |-> r.handled[k].id, filled |-> r.handled[k].filled,
                    at |-> datafeed.current_index]]

\* the date BacktestEngine::next hands to update_t1_availability
sweep_date(df, now) ==
    IF IsSome(DataFeed_get_current_datetime(df))
    THEN date_naive(Unwrap(DataFeed_get_current_datetime(df)))
    ELSE date_naive(now)

\* the closes of the first bars of the symbols that have a current bar
first_bar_prices_of(df) ==
    [s \in DOMAIN DataFeed_get_current_bars(df) |-> df.market_data[s][1].close]

\* the closes of the current bars, as record_equity collects them
current_prices_of(df) ==
    [s \in DOMAIN DataFeed_get_current_bars(df) |-> DataFeed_get_current_bars(df)[s].close]

\* the prices record_equity values the portfolio at: the cached ones when the
\* cache was filled at the current index
equity_prices(df, cache) ==
    IF IsSome(cache) /\ Unwrap(cache).idx = df.current_index
    THEN Unwrap(cache).prices
    ELSE current_prices_of(df)

\* benchmark equity = initial cash * (current close / initial close)
benchmark_equity(cash, benchmark_close, initial_benchmark_price) ==
    (cash * benchmark_close) \div initial_benchmark_price

\* the metrics after BacktestEngine::record_equity, at a current datetime
recorded_metrics(m, df, pf, cash, prices) ==
    LET datetime == Unwrap(DataFeed_get_current_datetime(df))
        with_equity == MetricsRecorder_record_equity(m, datetime, calculate_equity(pf, prices))
    IN  IF IsSome(DataFeed_get_current_benchmark_bar(df))
        THEN MetricsRecorder_record_benchmark(with_equity, datetime,
                 benchmark_equity(cash,
                     Unwrap(DataFeed_get_current_benchmark_bar(df)).close,
                     Unwrap(DataFeed_get_initial_benchmark_bar(df)).close))
        ELSE with_equity

\* BacktestEngine::record_equity
BacktestEngine_record_equity ==
    IF IsSome(DataFeed_get_current_datetime(datafeed))
    THEN LET prices == equity_prices(datafeed, cached_current_prices)
         IN  /\ cached_current_prices' =
                    Some([idx |-> datafeed.current_index, prices |-> prices])
             /\ metrics' = recorded_metrics(metrics, datafeed, portfolio, config.cash, prices)
    ELSE UNCHANGED <<cached_current_prices, metrics>>

\* BacktestEngine::next
BacktestEngine_next(now) ==
    /\ portfolio' = update_t1_availability(portfolio, sweep_date(datafeed, now))
    /\ datafeed' = DataFeed_next(datafeed)
    /\ cached_current_prices' =
           IF /\ IsSome(cached_current_prices)
              /\ Unwrap(cached_current_prices).idx # DataFeed_next(datafeed).current_index
           THEN None
           ELSE cached_current_prices
    /\ indicator_engine' =
           IndicatorEngine_update_index(indicator_engine, DataFeed_next(datafeed).current_index)

\* BacktestEngine::reset
BacktestEngine_reset ==
    /\ datafeed' = DataFeed_reset(datafeed)
    /\ indicator_engine' = IndicatorEngine_update_index(indicator_engine, 0)
    /\ cached_current_prices' = None

(***************************************************************************)
(* Inputs.                                                                 *)
(***************************************************************************)
\* Utc::now(): the wall clock, later than every bar of the data set
Now == MaxTime + 1

Dates == 0..date_naive(Now)

\* strictly increasing datetime sequences of length n over lo..MaxTime
RECURSIVE IncreasingFrom(_, _)
IncreasingFrom(lo, n) ==
    IF n = 0 THEN {<<>>}
    ELSE UNION {{<<t>> \o rest : rest \in IncreasingFrom(t + 1, n - 1)} : t \in lo..MaxTime}

\* the benchmark timelines: n distinct datetimes, the first at tick 0
TimelinesOf(n) == {<<0>> \o rest : rest \in IncreasingFrom(1, n - 1)}

Timelines == TimelinesOf(NumBars)

\* the close of the bar at tick t
CloseAt(t) == 10 * 2 ^ (t % 3)

BarsAt(times) == [i \in 1..Len(times) |-> Bar(times[i], CloseAt(times[i]))]

\* initial cash and cost settings: a 5.0 commission floor, and a floor above
\* the value of one lot
CostSettings ==
    {[cash |-> 5000, commission_rate |-> 1, min_commission |-> 5,
      slippage_bps |-> 1000, stamp_tax_rate |-> 1],
     [cash |-> 2100, commission_rate |-> 1, min_commission |-> 1000,
      slippage_bps |-> 1000, stamp_tax_rate |-> 1]}

Configs ==
    {[cash |-> c.cash, commission_rate |-> c.commission_rate,
      min_commission |-> c.min_commission, slippage_bps |-> c.slippage_bps,
      stamp_tax_rate |-> c.stamp_tax_rate, t0_symbols |-> t0] :
        c \in CostSettings, t0 \in {{}, {"X"}}}

\* the orders a strategy submits: [side, quantity_type, quantity]
DriverOrders ==
    {[side |-> sd, quantity_type |-> "Count", quantity |-> 1] : sd \in {"Buy", "Sell"}}

ApiOrders ==
    {[side |-> "Buy", quantity_type |-> "Count", quantity |-> 1],
     [side |-> "Buy", quantity_type |-> "Count", quantity |-> 2],
     [side |-> "Buy", quantity_type |-> "Count", quantity |-> 3],
     [side |-> "Sell", quantity_type |-> "Count", quantity |-> 1],
     [side |-> "Buy", quantity_type |-> "Cash", quantity |-> 1500],
     [side |-> "Buy", quantity_type |-> "Weight", quantity |-> 50]}

\* the engine after construction, add_market_data("X", ...) and set_benchmark;
\* with `late`, X has no bar at the first datetime of the timeline
EngineSetUp(timelines, lateness) ==
    \E cfg \in Configs, tl \in timelines, late \in lateness :
        /\ BacktestEngine_new(cfg)
        /\ datafeed = DataFeed_set_benchmark(
               DataFeed_add_market_data(DataFeed_new, "X",
                   BarsAt(IF late THEN Tail(tl) ELSE tl)),
               BarsAt(tl))
        /\ bar_fills = <<>>
        /\ trade_i = 0
        /\ step_log = <<>>
        /\ order_log = <<>>
        /\ exec_log = <<>>
        /\ next_id = 0

\* a strategy whose callbacks may do anything: it carries no script
AnyStrategy == <<>>

(***************************************************************************)
(* Spec: one PyBacktestEngine::run_backtest call on a freshly set-up       *)
(* engine.  pc is the place in its body; the strategy callbacks call       *)
(* add_order any number of times (the queue bounded by MaxQueue).          *)
(***************************************************************************)
Init ==
    /\ EngineSetUp(Timelines, BOOLEAN)
    /\ strategy = AnyStrategy
    /\ run = 1
    /\ py_result = None
    /\ pc = "on_start"

InCallback == pc \in {"on_start", "on_bar", "on_trade", "on_stop"}

\* a strategy callback calls ctx.order(...)
StrategyAddOrder ==
    /\ InCallback
    /\ next_id < MaxOrders
    /\ \E o \in DriverOrders :
           PyBacktestEngine_add_order("X", o.side, o.quantity, o.quantity_type, Now)
    /\ UNCHANGED <<datafeed, portfolio, config, strategy, run, py_result, indicator_engine, metrics,
                   cached_current_prices, pc, bar_fills, trade_i, step_log, exec_log>>

\* on_start returns; compute_all_indicators; engine.reset()
OnStartReturn ==
    /\ pc = "on_start"
    /\ BacktestEngine_reset
    /\ pc' = "loop"
    /\ UNCHANGED <<execution_engine, portfolio, config, strategy, run, py_result, metrics, bar_fills, trade_i,
                   step_log, order_log, exec_log, next_id>>

\* one entry of step_log
Step(step, bar, fills, trade) ==
    [step |-> step, bar |-> bar, fills |-> fills, trade |-> trade]

\* `while has_next` holds: execute_orders, then on_bar is called
LoopExecute ==
    /\ pc = "loop"
    /\ DataFeed_has_next(datafeed)
    /\ BacktestEngine_execute_orders
    /\ pc' = "on_bar"
    /\ trade_i' = 0
    /\ step_log' = Append(step_log, Step("execute", datafeed.current_index, bar_fills', 0))
    /\ UNCHANGED <<indicator_engine, cached_current_prices, datafeed, config, strategy, run, py_result, order_log,
                   next_id>>

\* where run_backtest continues after on_bar returns
after_on_bar(fills) == IF fills = <<>> THEN "record_equity" ELSE "on_trade"

\* on_trade called on fill i of `for fill in &fills` only, the rest skipped
after_on_trade_first_only(i, fills) == "record_equity"

\* where run_backtest continues after on_trade returns for fill i of fills
after_on_trade(i, fills) == IF i + 1 < Len(fills) THEN "on_trade" ELSE "record_equity"

\* on_bar returns; the on_trade loop starts
OnBarReturn ==
    /\ pc = "on_bar"
    /\ pc' = after_on_bar(bar_fills)
    /\ step_log' = Append(step_log, Step("on_bar", datafeed.current_index, <<>>, 0))
    /\ UNCHANGED <<indicator_engine, metrics, cached_current_prices, datafeed,
                   execution_engine, portfolio, config, strategy, run, py_result, bar_fills, trade_i, order_log,
                   exec_log, next_id>>

\* one on_trade call returns
OnTradeReturn ==
    /\ pc = "on_trade"
    /\ trade_i' = trade_i + 1
    /\ pc' = after_on_trade(trade_i, bar_fills)
    /\ step_log' = Append(step_log,
           Step("on_trade", datafeed.current_index, <<bar_fills[trade_i + 1]>>, trade_i))
    /\ UNCHANGED <<indicator_engine, metrics, cached_current_prices, datafeed,
                   execution_engine, portfolio, config, strategy, run, py_result, bar_fills, order_log, exec_log,
                   next_id>>

\* engine.record_equity()
RecordEquity ==
    /\ pc = "record_equity"
    /\ BacktestEngine_record_equity
    /\ pc' = "next"
    /\ step_log' = Append(step_log, Step("record_equity", datafeed.current_index, <<>>, 0))
    /\ UNCHANGED <<datafeed, execution_engine, portfolio, config, strategy, run, py_result, indicator_engine,
                   bar_fills, trade_i, order_log, exec_log, next_id>>

\* engine.next()
Advance ==
    /\ pc = "next"
    /\ BacktestEngine_next(Now)
    /\ pc' = "loop"
    /\ step_log' = Append(step_log, Step("advance", datafeed.current_index, <<>>, 0))
    /\ UNCHANGED <<metrics, execution_engine, config, strategy, run, py_result, bar_fills, trade_i, order_log,
                   exec_log, next_id>>

\* `while has_next` fails: on_stop is called
LoopExit ==
    /\ pc = "loop"
    /\ ~DataFeed_has_next(datafeed)
    /\ pc' = "on_stop"
    /\ UNCHANGED <<indicator_engine, metrics, cached_current_prices, datafeed,
                   execution_engine, portfolio, config, strategy, run, py_result, bar_fills, trade_i, step_log,
                   order_log, exec_log, next_id>>

\* on_stop returns; run_backtest returns its result
OnStopReturn ==
    /\ pc = "on_stop"
    /\ pc' = "done"
    /\ UNCHANGED <<indicator_engine, metrics, cached_current_prices, datafeed,
                   execution_engine, portfolio, config, strategy, run, py_result, bar_fills, trade_i, step_log,
                   order_log, exec_log, next_id>>

Next ==
    \/ StrategyAddOrder
    \/ OnStartReturn
    \/ LoopExecute
    \/ OnBarReturn
    \/ OnTradeReturn
    \/ RecordEquity
    \/ Advance
    \/ LoopExit
    \/ OnStopReturn

Spec == Init /\ [][Next]_vars

(***************************************************************************)
(* SpecApi: add_order, execute_orders and next of PyBacktestEngine called   *)
(* in any order on a set-up engine.                                        *)
(***************************************************************************)
\* two timelines: intraday bars then a new day, and one bar per day
ApiTimelines ==
    {tl \in TimelinesOf(ApiBars) : \/ \A i \in 1..ApiBars : tl[i] = i - 1
                                   \/ \A i \in 1..ApiBars : tl[i] = TicksPerDay * (i - 1)}

InitApi ==
    /\ EngineSetUp(ApiTimelines, {FALSE})
    /\ strategy = AnyStrategy
    /\ run = 1
    /\ py_result = None
    /\ pc = "api"

ApiAddOrder ==
    /\ next_id < MaxApiOrders
    /\ \E o \in ApiOrders :
           PyBacktestEngine_add_order("X", o.side, o.quantity, o.quantity_type, Now)
    /\ UNCHANGED <<datafeed, portfolio, config, strategy, run, py_result, indicator_engine, metrics,
                   cached_current_prices, pc, bar_fills, trade_i, step_log, exec_log>>

ApiExecuteOrders ==
    /\ BacktestEngine_execute_orders
    /\ UNCHANGED <<datafeed, config, strategy, run, py_result, indicator_engine, cached_current_prices, pc, trade_i,
                   step_log, order_log, next_id>>

ApiNext ==
    /\ BacktestEngine_next(Now)
    /\ UNCHANGED <<execution_engine, config, strategy, run, py_result, metrics, pc, bar_fills, trade_i, step_log,
                   order_log, exec_log, next_id>>

NextApi ==
    \/ ApiAddOrder
    \/ ApiExecuteOrders
    \/ ApiNext

SpecApi == InitApi /\ [][NextApi]_vars

(***************************************************************************)
(* SpecRerun: run_backtest driven to completion, then reset() and the loop *)
(* driven a second time with the same strategy.  The strategy is scripted: *)
(* on_bar at bar i submits strategy[i], a one-lot Buy or Sell or nothing,  *)
(* and no other callback submits an order.                                 *)
(***************************************************************************)
Strategies == [0..(NumBars - 1) -> {"None", "Buy", "Sell"}]

InitRerun ==
    /\ EngineSetUp(Timelines, {FALSE})
    /\ strategy \in Strategies
    /\ run = 1
    /\ py_result = None
    /\ pc = "on_start"

\* on_bar of the scripted strategy runs and returns
ScriptedOnBarReturn ==
    /\ pc = "on_bar"
    /\ IF strategy[datafeed.current_index] = "None"
       THEN UNCHANGED <<execution_engine, next_id, order_log>>
       ELSE PyBacktestEngine_add_order("X", strategy[datafeed.current_index], 1, "Count", Now)
    /\ pc' = after_on_bar(bar_fills)
    /\ step_log' = Append(step_log, Step("on_bar", datafeed.current_index, <<>>, 0))
    /\ UNCHANGED <<indicator_engine, metrics, cached_current_prices, datafeed, portfolio,
                   config, strategy, run, py_result, bar_fills, trade_i, exec_log>>

\* the caller calls reset() and drives the loop again
RunAgain ==
    /\ pc = "done"
    /\ run = 1
    /\ BacktestEngine_reset
    /\ pc' = "loop"
    /\ run' = 2
    /\ UNCHANGED <<execution_engine, portfolio, config, strategy, py_result, metrics,
                   bar_fills, trade_i, step_log, order_log, exec_log, next_id>>

NextRerun ==
    \/ OnStartReturn
    \/ LoopExecute
    \/ ScriptedOnBarReturn
    \/ OnTradeReturn
    \/ RecordEquity
    \/ Advance
    \/ LoopExit
    \/ OnStopReturn
    \/ RunAgain

SpecRerun == InitRerun /\ [][NextRerun]_vars

(***************************************************************************)
(* SpecInd: an indicator is registered under the name "ind", then          *)
(* compute_all_indicators, next and reset are called in any order.  X has  *)
(* any bars at the ticks 0..MaxIndTime, each closing at 10 or 20; the      *)
(* benchmark has IndBars bars at any of those ticks.                       *)
(***************************************************************************)
\* increasing tick sequences of length n over lo..MaxIndTime
RECURSIVE IndTicksFrom(_, _)
IndTicksFrom(lo, n) ==
    IF n = 0 THEN {<<>>}
    ELSE UNION {{<<t>> \o rest : rest \in IndTicksFrom(t + 1, n - 1)} : t \in lo..MaxIndTime}

IndTimelines == IndTicksFrom(0, IndBars)

\* the bar series of a symbol: distinct ticks in order, any closes
IndSeries ==
    UNION {{[k \in 1..Len(ticks) |-> Bar(ticks[k], closes[k])] :
                closes \in [1..Len(ticks) -> {10, 20}]} :
           ticks \in UNION {IndTicksFrom(0, n) : n \in 0..(MaxIndTime + 1)}}

IndicatorDefs ==
    {RustBuiltin("sma", period, field, lookback) :
         period \in {None, Some(Decimals[MaxPeriod]), Some("x")},
         field \in {None, Some("close"), Some("typo")},
         lookback \in 1..MaxPeriod}
    \cup {RustBuiltin("unknown", None, None, 1), PythonFunction("f", 1)}

InitInd ==
    /\ BacktestEngine_new([cash |-> 0, commission_rate |-> 0, min_commission |-> 0,
                           slippage_bps |-> 0, stamp_tax_rate |-> 0, t0_symbols |-> {}])
    /\ \E series \in IndSeries, tl \in IndTimelines :
           datafeed = DataFeed_set_benchmark(
               DataFeed_add_market_data(DataFeed_new, "X", series), BarsAt(tl))
    /\ pc = "ind"
    /\ bar_fills = <<>>
    /\ trade_i = 0
    /\ step_log = <<>>
    /\ order_log = <<>>
    /\ exec_log = <<>>
    /\ next_id = 0
    /\ strategy = AnyStrategy
    /\ run = 1
    /\ py_result = None

\* PyBacktestEngine::register_indicator, called once
IndRegister ==
    /\ ~IndicatorEngine_has_indicators(indicator_engine)
    /\ \E def \in IndicatorDefs :
           indicator_engine' = IndicatorEngine_register_indicator(indicator_engine, "ind", def)
    /\ UNCHANGED <<datafeed, execution_engine, portfolio, config, strategy, run, py_result, metrics,
                   cached_current_prices, pc, bar_fills, trade_i, step_log, order_log,
                   exec_log, next_id>>

\* BacktestEngine::compute_all_indicators
IndCompute ==
    /\ indicator_engine' = IndicatorEngine_compute_all_indicators(indicator_engine, datafeed)
    /\ UNCHANGED <<datafeed, execution_engine, portfolio, config, strategy, run, py_result, metrics,
                   cached_current_prices, pc, bar_fills, trade_i, step_log, order_log,
                   exec_log, next_id>>

IndNext ==
    /\ BacktestEngine_next(Now)
    /\ UNCHANGED <<execution_engine, config, strategy, run, py_result, metrics, pc, bar_fills, trade_i,
                   step_log, order_log, exec_log, next_id>>

IndReset ==
    /\ BacktestEngine_reset
    /\ UNCHANGED <<execution_engine, portfolio, config, strategy, run, py_result, metrics, pc,
                   bar_fills, trade_i, step_log, order_log, exec_log, next_id>>

NextInd ==
    \/ IndRegister
    \/ IndCompute
    \/ IndNext
    \/ IndReset

SpecInd == InitInd /\ [][NextInd]_vars

(***************************************************************************)
(* SpecFeed: the methods of DataFeed called in any order on a new feed.    *)
(***************************************************************************)
RECURSIVE SeqsUpTo(_, _)
SeqsUpTo(S, n) ==
    IF n = 0 THEN {<<>>}
    ELSE LET shorter == SeqsUpTo(S, n - 1)
         IN  shorter \cup {Append(q, x) : q \in shorter, x \in S}

\* the bar lists handed to set_benchmark and add_market_data, in any order
FeedBarLists == {BarsAt(times) : times \in SeqsUpTo(0..MaxFeedTime, MaxFeedBars)}

InitFeed ==
    /\ strategy = AnyStrategy
    /\ run = 1
    /\ py_result = None
    /\ BacktestEngine_new([cash |-> 0, commission_rate |-> 0, min_commission |-> 0,
                           slippage_bps |-> 0, stamp_tax_rate |-> 0, t0_symbols |-> {}])
    /\ datafeed = DataFeed_new
    /\ pc = "feed"
    /\ bar_fills = <<>>
    /\ trade_i = 0
    /\ step_log = <<>>
    /\ order_log = <<>>
    /\ exec_log = <<>>
    /\ next_id = 0

\* the fields of the engine that no DataFeed method touches
FeedFrame ==
    UNCHANGED <<execution_engine, portfolio, config, strategy, run, py_result, indicator_engine, metrics,
                cached_current_prices, pc, bar_fills, trade_i, step_log, order_log,
                exec_log, next_id>>

FeedSetBenchmark ==
    /\ \E bars \in FeedBarLists : datafeed' = DataFeed_set_benchmark(datafeed, bars)
    /\ FeedFrame

FeedAddMarketData ==
    /\ \E s \in Symbols, bars \in FeedBarLists :
           datafeed' = DataFeed_add_market_data(datafeed, s, bars)
    /\ FeedFrame

FeedNext ==
    /\ datafeed' = DataFeed_next(datafeed)
    /\ FeedFrame

FeedReset ==
    /\ datafeed' = DataFeed_reset(datafeed)
    /\ FeedFrame

NextFeed ==
    \/ FeedSetBenchmark
    \/ FeedAddMarketData
    \/ FeedNext
    \/ FeedReset

SpecFeed == InitFeed /\ [][NextFeed]_vars

(***************************************************************************)
(* Properties of the data feed, checked under SpecFeed                     *)
(***************************************************************************)

\* T[current_index], defined while the timeline is not exhausted
CurrentTime == datafeed.benchmark_timeline[datafeed.current_index + 1]

Counts == 0..MaxCount

\* C1: while current_index < N, every bar returned by get_current_bar,
\* get_current_bars or get_bars has datetime <= T[current_index], after any
\* sequence of set_benchmark, add_market_data, next and reset.
C1_NoLookAhead ==
    DataFeed_has_next(datafeed) =>
        \A s \in Symbols :
            /\ IsSome(DataFeed_get_current_bar(datafeed, s)) =>
                   Unwrap(DataFeed_get_current_bar(datafeed, s)).datetime <= CurrentTime
            /\ s \in DOMAIN DataFeed_get_current_bars(datafeed) =>
                   DataFeed_get_current_bars(datafeed)[s].datetime <= CurrentTime
            /\ \A k \in Counts :
                   \A i \in 1..Len(DataFeed_get_bars(datafeed, s, k)) :
                       DataFeed_get_bars(datafeed, s, k)[i].datetime <= CurrentTime

\* the symbol has data and a cursor that points into it
HasCursorBar(s) ==
    /\ DataFeed_has_next(datafeed)
    /\ s \in DOMAIN datafeed.market_data
    /\ s \in DOMAIN datafeed.symbol_indices
    /\ datafeed.symbol_indices[s] < Len(datafeed.market_data[s])

\* the n bars of s that end at the cursor bar
WindowEndingAtCursor(s, n) ==
    LET c == datafeed.symbol_indices[s]
    IN  SubSeq(datafeed.market_data[s], c + 2 - n, c + 1)

\* C10 (as stated): get_bars(symbol, count) returns exactly the count most
\* recent bars ending at the cursor bar when at least count bars exist at or
\* before the cursor, and the empty list when fewer than count are available.
C10_AllOrNothing ==
    \A s \in Symbols, count \in Counts \ {0} :
        HasCursorBar(s) =>
            IF datafeed.symbol_indices[s] + 1 >= count
            THEN DataFeed_get_bars(datafeed, s, count) = WindowEndingAtCursor(s, count)
            ELSE DataFeed_get_bars(datafeed, s, count) = <<>>

\* C10 (amended): get_bars(symbol, count) returns the min(max(count, 1), c + 1)
\* most recent bars ending at the cursor bar, c being the symbol's cursor:
\* a shorter window when fewer than count bars exist, and the empty list only
\* when the timeline is exhausted or the symbol has no bar under its cursor.
C10_PartialWindow ==
    \A s \in Symbols, count \in Counts :
        IF HasCursorBar(s)
        THEN DataFeed_get_bars(datafeed, s, count) =
                 WindowEndingAtCursor(s, Min(Max(count, 1), datafeed.symbol_indices[s] + 1))
        ELSE DataFeed_get_bars(datafeed, s, count) = <<>>

\* get_bars asked for more bars than exist at or before the cursor
C10_Witness ==
    \E s \in Symbols, count \in Counts :
        /\ HasCursorBar(s)
        /\ datafeed.current_index > 0
        /\ count > datafeed.symbol_indices[s] + 1
        /\ Len(DataFeed_get_bars(datafeed, s, count)) = datafeed.symbol_indices[s] + 1

(***************************************************************************)
(* Properties of the portfolio arithmetic, checked under SpecApi           *)
(***************************************************************************)
RECURSIVE SumOver(_, _)
SumOver(f, S) ==
    IF S = {} THEN 0
    ELSE LET x == CHOOSE y \in S : TRUE
         IN  f[x] + SumOver(f, S \ {x})

\* the quantities of the buy_records of s dated exactly d, summed
RecordsDated(s, d) ==
    IF s \in DOMAIN portfolio.buy_records
    THEN LET recs == portfolio.buy_records[s]
         IN  SumOver([i \in 1..Len(recs) |-> recs[i].quantity],
                     {i \in 1..Len(recs) : recs[i].date = d})
    ELSE 0

\* C8: get_available(symbol, d) is 0 when no position exists, the full
\* position quantity when symbol is in t0_symbols, and otherwise
\* max(position - sum of the buy_records of the symbol dated exactly d, 0).
C8_Available ==
    \A s \in Symbols \cup {"Y"}, d \in Dates :
        get_available(portfolio, s, d) =
            IF s \notin DOMAIN portfolio.positions THEN 0
            ELSE IF s \in portfolio.t0_symbols THEN portfolio.positions[s].quantity
            ELSE IF portfolio.positions[s].quantity - RecordsDated(s, d) > 0
                 THEN portfolio.positions[s].quantity - RecordsDated(s, d)
                 ELSE 0

\* a T+1 position smaller than the records of one date: the clamp applies
C8_Witness ==
    \E s \in Symbols, d \in Dates :
        /\ s \in DOMAIN portfolio.positions
        /\ s \notin portfolio.t0_symbols
        /\ portfolio.positions[s].quantity > 0
        /\ RecordsDated(s, d) > portfolio.positions[s].quantity
        /\ get_available(portfolio, s, d) = 0

FillIndices(side) == {i \in 1..Len(portfolio.fills) : portfolio.fills[i].side = side}

\* lots * price * 100 of every fill
FillAmounts ==
    [i \in 1..Len(portfolio.fills) |->
        portfolio.fills[i].quantity * portfolio.fills[i].price * 100]

FillCommissions == [i \in 1..Len(portfolio.fills) |-> portfolio.fills[i].commission]

\* C5: after any sequence of add_order and execute_orders calls,
\* initial_cash - cash equals the sum over Buy fills of
\* (lots * price * 100 + commission) minus the sum over Sell fills of
\* (lots * price * 100 - commission).
C5_CashConservation ==
    config.cash - portfolio.cash =
        (SumOver(FillAmounts, FillIndices("Buy")) + SumOver(FillCommissions, FillIndices("Buy")))
        - (SumOver(FillAmounts, FillIndices("Sell")) - SumOver(FillCommissions, FillIndices("Sell")))

\* both a Buy and a Sell have been filled
C5_Witness ==
    /\ FillIndices("Buy") # {}
    /\ FillIndices("Sell") # {}
    /\ portfolio.cash # config.cash

(***************************************************************************)
(* Properties of the driver loop, checked under Spec                       *)
(***************************************************************************)
\* C3: execute_all_orders returns a fill sequence in which every Sell fill
\* precedes every Buy fill, and within each side the fills appear in the
\* order in which their orders were added by add_order.
C3_SellsBeforeBuys ==
    \A i, j \in 1..Len(bar_fills) :
        i < j =>
            /\ ~(bar_fills[i].side = "Buy" /\ bar_fills[j].side = "Sell")
            /\ bar_fills[i].side = bar_fills[j].side =>
                   bar_fills[i].order_id < bar_fills[j].order_id

\* one call filled a Sell ahead of a Buy that was added before it
C3_Witness ==
    \E i, j \in 1..Len(bar_fills) :
        /\ i < j
        /\ bar_fills[i].side = "Sell"
        /\ bar_fills[j].side = "Buy"
        /\ bar_fills[j].order_id < bar_fills[i].order_id

\* C4: starting from cash >= 0 with non-negative commission, stamp-tax and
\* slippage settings, after every fill cash >= 0 and every position
\* quantity is >= 0.
C4_NonNegative ==
    /\ portfolio.cash >= 0
    /\ \A s \in DOMAIN portfolio.positions : portfolio.positions[s].quantity >= 0

\* the order of a fill or of an exec_log entry: where add_order was called
OrderOf(id) == order_log[id + 1]

FromBarCallback(id) == OrderOf(id).cb \in {"on_bar", "on_trade"}

\* the execute step of bar j of the driver loop has run
ExecuteStepDone(j) ==
    \/ datafeed.current_index > j
    \/ /\ datafeed.current_index = j
       /\ pc \in {"on_bar", "on_trade", "record_equity", "next"}

\* s has a bar stamped at or before T[j]
HasBarAt(s, j) ==
    \E k \in 1..Len(datafeed.market_data[s]) :
        datafeed.market_data[s][k].datetime <= datafeed.benchmark_timeline[j + 1]

\* the close of the bar of s at bar j of the timeline: its last bar stamped at
\* or before T[j]
CloseOfBar(s, j) ==
    LET bars == datafeed.market_data[s]
        last == CHOOSE k \in 1..Len(bars) :
                    /\ bars[k].datetime <= datafeed.benchmark_timeline[j + 1]
                    /\ \A m \in 1..Len(bars) :
                           bars[m].datetime <= datafeed.benchmark_timeline[j + 1] => m <= k
    IN  bars[last].close

\* C2: in the driver loop an order enqueued by on_bar or on_trade during bar i
\* is never matched against bar i: it is filled or rejected exactly once,
\* during the execute step of bar i+1, priced from the close of bar i+1.
C2_NextBarExecution ==
    /\ \A k \in 1..Len(exec_log) :
           FromBarCallback(exec_log[k].id) =>
               exec_log[k].at = OrderOf(exec_log[k].id).bar + 1
    /\ \A j, k \in 1..Len(exec_log) : j # k => exec_log[j].id # exec_log[k].id
    /\ \A id \in 0..(next_id - 1) :
           FromBarCallback(id) /\ ExecuteStepDone(OrderOf(id).bar + 1) =>
               \E k \in 1..Len(exec_log) : exec_log[k].id = id
    /\ \A k \in 1..Len(portfolio.fills) :
           LET f == portfolio.fills[k]
           IN  FromBarCallback(f.order_id) =>
                   f.price = calculate_fill_price(execution_engine, f.side,
                                 CloseOfBar(f.symbol, OrderOf(f.order_id).bar + 1))

\* an order of on_bar or on_trade was filled, and the bar it was enqueued on
\* closed at another price than the bar it was filled on
C2_Witness ==
    \E k \in 1..Len(portfolio.fills) :
        LET f == portfolio.fills[k]
            i == OrderOf(f.order_id).bar
        IN  /\ FromBarCallback(f.order_id)
            /\ HasBarAt(f.symbol, i)
            /\ CloseOfBar(f.symbol, i) # CloseOfBar(f.symbol, i + 1)

\* the fills of s, as indices of portfolio.fills
FillsOf(s) == {i \in 1..Len(portfolio.fills) : portfolio.fills[i].symbol = s}

\* the change of the position that fill i made
SignedLots ==
    [i \in 1..Len(portfolio.fills) |->
        IF portfolio.fills[i].side = "Buy"
        THEN portfolio.fills[i].quantity
        ELSE 0 - portfolio.fills[i].quantity]

FillLots == [i \in 1..Len(portfolio.fills) |-> portfolio.fills[i].quantity]

\* the position in s held before fill k was applied
PositionBefore(s, k) == SumOver(SignedLots, {i \in FillsOf(s) : i < k})

FirstOf(S) == CHOOSE i \in S : \A j \in S : i <= j

\* the trade date of a fill: the date of its timestamp
TradeDate(i) == date_naive(portfolio.fills[i].timestamp)

SellsDated(s, d) ==
    {i \in FillsOf(s) : portfolio.fills[i].side = "Sell" /\ TradeDate(i) = d}

BuysDated(s, d) ==
    {i \in FillsOf(s) : portfolio.fills[i].side = "Buy" /\ TradeDate(i) = d}

\* C6 (as stated): for a symbol not in t0_symbols and any date d, the total
\* lots of Sell fills whose timestamp date is d never exceeds the position held
\* before the first Buy fill with timestamp date d was applied.
C6_SellsWithinPositionBeforeFirstBuy ==
    \A s \in Symbols \ portfolio.t0_symbols, d \in Dates :
        BuysDated(s, d) # {} =>
            SumOver(FillLots, SellsDated(s, d)) <= PositionBefore(s, FirstOf(BuysDated(s, d)))

\* C6 (amended): for a symbol not in t0_symbols and any date d, the total
\* lots of Sell fills whose timestamp date is d never exceeds the position held
\* before the first fill, Buy or Sell, with timestamp date d was applied.
C6_SellsWithinPositionAtStartOfDate ==
    \A s \in Symbols \ portfolio.t0_symbols, d \in Dates :
        BuysDated(s, d) \cup SellsDated(s, d) # {} =>
            SumOver(FillLots, SellsDated(s, d))
                <= PositionBefore(s, FirstOf(BuysDated(s, d) \cup SellsDated(s, d)))

\* a T+1 symbol has a Buy fill and a Sell fill with the same trade date
C6_Witness ==
    \E s \in Symbols \ portfolio.t0_symbols, d \in Dates :
        /\ BuysDated(s, d) # {}
        /\ SellsDated(s, d) # {}

\* the bar a fill was executed at, and the calendar date of that bar
ExecutedAt(i) ==
    LET k == CHOOSE n \in 1..Len(exec_log) : exec_log[n].id = portfolio.fills[i].order_id
    IN  exec_log[k].at

ExecutionDate(i) == date_naive(datafeed.benchmark_timeline[ExecutedAt(i) + 1])

ExecutedOn(s, d) == {i \in FillsOf(s) : ExecutionDate(i) = d}

\* C7: for a symbol not in t0_symbols, lots acquired by a Buy that executed
\* at a bar of calendar date d are not sold by a Sell executing at a bar of
\* the same date d: the Sells executed on d take no more than the position
\* held before the first fill executed on d.
C7_NoSameDateRoundTrip ==
    \A s \in Symbols \ portfolio.t0_symbols, d \in Dates :
        ExecutedOn(s, d) # {} =>
            SumOver(FillLots, {i \in ExecutedOn(s, d) : portfolio.fills[i].side = "Sell"})
                <= PositionBefore(s, FirstOf(ExecutedOn(s, d)))

\* the records of s dated d, in order
RecordsOn(pf, s, d) ==
    IF s \in DOMAIN pf.buy_records
    THEN SelectSeq(pf.buy_records[s], LAMBDA r : r.date = d)
    ELSE <<>>

\* C9: immediately after BacktestEngine::next advances from bar i to bar i+1,
\* buy_records holds no record dated strictly before the date of T[i+1], and
\* every record dated the date of T[i+1] that existed before is still there.
C9_SettlementSweep ==
    [][(pc = "next" /\ pc' = "loop" /\ DataFeed_has_next(datafeed')) =>
          LET new_date == date_naive(Unwrap(DataFeed_get_current_datetime(datafeed')))
          IN  /\ \A s \in DOMAIN portfolio'.buy_records :
                     \A k \in 1..Len(portfolio'.buy_records[s]) :
                         portfolio'.buy_records[s][k].date >= new_date
              /\ \A s \in DOMAIN portfolio.buy_records :
                     RecordsOn(portfolio', s, new_date) = RecordsOn(portfolio, s, new_date)]_vars

(***************************************************************************)
(* Properties of the recorded curves and of the order of the loop's steps, *)
(* checked under Spec                                                      *)
(***************************************************************************)
RunFinished == pc \in {"on_stop", "done"}

\* C11: after a driver run over a timeline of N bars with distinct datetimes
\* the equity curve has exactly N points, its datetimes strictly increase,
\* and the benchmark curve has the same length and the same datetime at
\* every position.
C11_EquityCurveShape ==
    RunFinished =>
        /\ Len(metrics.equity_curve) = Len(datafeed.benchmark_timeline)
        /\ \A i \in 1..(Len(metrics.equity_curve) - 1) :
               metrics.equity_curve[i].datetime < metrics.equity_curve[i + 1].datetime
        /\ Len(metrics.benchmark_curve) = Len(metrics.equity_curve)
        /\ \A i \in 1..Len(metrics.equity_curve) :
               metrics.benchmark_curve[i].datetime = metrics.equity_curve[i].datetime

\* a finished run that recorded a point for each of its bars
C11_Witness ==
    /\ pc = "done"
    /\ Len(metrics.equity_curve) = NumBars
    /\ metrics.equity_curve[NumBars].datetime = datafeed.benchmark_timeline[NumBars]

\* the fills the execute step of bar i produced, as step_log has them
StepFills(i) ==
    LET p == CHOOSE q \in 1..Len(step_log) :
                 step_log[q].step = "execute" /\ step_log[q].bar = i
    IN  step_log[p].fills

\* the orders execute_order filled at bar i, in execution order
FilledAt(i) == SelectSeq(exec_log, LAMBDA e : e.filled /\ e.at = i)

\* step b may directly follow step a
StepFollows(a, b) ==
    CASE a.step = "execute" -> b.step = "on_bar" /\ b.bar = a.bar
      [] a.step = "on_bar" ->
            IF StepFills(a.bar) = <<>>
            THEN b.step = "record_equity" /\ b.bar = a.bar
            ELSE b = Step("on_trade", a.bar, <<StepFills(a.bar)[1]>>, 0)
      [] a.step = "on_trade" ->
            IF a.trade + 1 < Len(StepFills(a.bar))
            THEN b = Step("on_trade", a.bar, <<StepFills(a.bar)[a.trade + 2]>>, a.trade + 1)
            ELSE b.step = "record_equity" /\ b.bar = a.bar
      [] a.step = "record_equity" -> b.step = "advance" /\ b.bar = a.bar
      [] a.step = "advance" -> b.step = "execute" /\ b.bar = a.bar + 1

\* C14: within every iteration of the driver loop the steps occur in the
\* order execute, on_bar once, on_trade once per fill of this bar in the fill
\* order produced by execute, record_equity, advance; no step of bar i+1
\* starts before the advance of bar i.
C14_StepOrder ==
    /\ step_log # <<>> => step_log[1].step = "execute" /\ step_log[1].bar = 0
    /\ \A p \in 1..(Len(step_log) - 1) : StepFollows(step_log[p], step_log[p + 1])
    /\ \A p \in 1..Len(step_log) :
           step_log[p].step = "execute" =>
               /\ Len(step_log[p].fills) = Len(FilledAt(step_log[p].bar))
               /\ \A k \in 1..Len(step_log[p].fills) :
                      step_log[p].fills[k].order_id = FilledAt(step_log[p].bar)[k].id
    /\ RunFinished =>
           /\ Len(step_log) > 0
           /\ step_log[Len(step_log)].step = "advance"
           /\ step_log[Len(step_log)].bar = Len(datafeed.benchmark_timeline) - 1

\* a finished run in which one bar had two fills, so on_trade ran twice
C14_Witness ==
    /\ pc = "done"
    /\ \E p \in 1..Len(step_log) :
           step_log[p].step = "on_trade" /\ step_log[p].trade = 1

(***************************************************************************)
(* C20: commission = max(trade_amount * commission_rate, min_commission)   *)
(* for a Buy, and that plus trade_amount * stamp_tax_rate for a Sell; the  *)
(* min_commission floor applies to the base commission only, never to the  *)
(* stamp tax.  Checked on every Fill, with trade_amount = quantity * price *)
(* * 100 (rates are whole percents).                                       *)
(***************************************************************************)
FillAmount(f) == f.quantity * f.price * 100

FlooredBase(f) ==
    IF (FillAmount(f) * config.commission_rate) \div 100 >= config.min_commission
    THEN (FillAmount(f) * config.commission_rate) \div 100
    ELSE config.min_commission

StampTax(f) == (FillAmount(f) * config.stamp_tax_rate) \div 100

C20_Commission ==
    \A i \in 1..Len(portfolio.fills) :
        LET f == portfolio.fills[i]
        IN  /\ f.side = "Buy" => f.commission = FlooredBase(f)
            /\ f.side = "Sell" => f.commission = FlooredBase(f) + StampTax(f)

\* a Sell was filled whose base commission is the floor and whose stamp tax
\* is positive, and a Buy was filled above the floor
C20_Witness ==
    /\ \E i \in 1..Len(portfolio.fills) :
           LET f == portfolio.fills[i]
           IN  /\ f.side = "Sell"
               /\ FlooredBase(f) = config.min_commission
               /\ (FillAmount(f) * config.commission_rate) \div 100 < config.min_commission
               /\ StampTax(f) > 0
               /\ f.commission = config.min_commission + StampTax(f)
    /\ \E i \in 1..Len(portfolio.fills) : portfolio.fills[i].side = "Buy"

(***************************************************************************)
(* C16: after every execute_all_orders call the order queue is empty, and  *)
(* a rejected order is never retried: execute_order is called at most once *)
(* on any order, filled or not.                                            *)
(***************************************************************************)
ExecuteStep == pc = "loop" /\ pc' = "on_bar"

HandledOnce ==
    \A j, k \in 1..Len(exec_log) : exec_log[j].id = exec_log[k].id => j = k

C16_QueueCleared ==
    /\ []HandledOnce
    /\ [][ExecuteStep => execution_engine'.orders = <<>>]_vars

\* an order was rejected at one bar and execute_orders ran again at a later one
C16_Witness ==
    \E k \in 1..Len(exec_log) :
        /\ ~exec_log[k].filled
        /\ \E p \in 1..Len(step_log) :
               step_log[p].step = "execute" /\ step_log[p].bar > exec_log[k].at

(***************************************************************************)
(* C15: a rejected order (no current bar for the symbol, computed lots     *)
(* <= 0, a Sell of more lots than are available on the date of the order's *)
(* timestamp, a Buy whose cost plus commission exceeds the cash) produces  *)
(* no Fill and leaves cash, positions and buy_records as they were; every  *)
(* other order is filled, the Buy whose cost plus commission equals the    *)
(* cash exactly included.  Checked on execute_order called, in every       *)
(* reachable state, on each queued order and on each order add_order could *)
(* queue now.                                                              *)
(***************************************************************************)
ProbeOrders ==
    { execution_engine.orders[k] : k \in 1..Len(execution_engine.orders) }
    \cup
    { [symbol |-> sym, side |-> o.side, quantity_type |-> o.quantity_type,
       quantity |-> o.quantity, timestamp |-> order_timestamp(datafeed, Now),
       id |-> next_id] :
          sym \in {"X", "Y"},
          o \in ApiOrders \cup
                {[side |-> sd, quantity_type |-> "Count", quantity |-> q] :
                     sd \in {"Buy", "Sell"}, q \in 0..2} }

LotsOf(o) ==
    quantity_lots_of(o,
        calculate_fill_price(execution_engine, o.side, execution_bars(datafeed)[o.symbol].close),
        execution_bars(datafeed), portfolio)

CostOf(o) ==
    LotsOf(o) * 100
        * calculate_fill_price(execution_engine, o.side, execution_bars(datafeed)[o.symbol].close)

Rejected(o) ==
    \/ o.symbol \notin DOMAIN execution_bars(datafeed)
    \/ LotsOf(o) <= 0
    \/ /\ o.side = "Sell"
       /\ LotsOf(o) > get_available(portfolio, o.symbol, date_naive(o.timestamp))
    \/ /\ o.side = "Buy"
       /\ CostOf(o) + calculate_commission(execution_engine, CostOf(o), "Buy") > portfolio.cash

ExactCash(o) ==
    /\ o.symbol \in DOMAIN execution_bars(datafeed)
    /\ o.side = "Buy"
    /\ LotsOf(o) > 0
    /\ CostOf(o) + calculate_commission(execution_engine, CostOf(o), "Buy") = portfolio.cash

C15_RejectionLeavesNoTrace ==
    \A o \in ProbeOrders :
        LET r == execute_order(execution_engine, o, execution_bars(datafeed), portfolio)
        IN  /\ Rejected(o) =>
                   /\ r.fill = None
                   /\ r.portfolio.cash = portfolio.cash
                   /\ r.portfolio.positions = portfolio.positions
                   /\ r.portfolio.buy_records = portfolio.buy_records
            /\ ~Rejected(o) => IsSome(r.fill)
            /\ ExactCash(o) =>
                   /\ IsSome(r.fill)
                   /\ r.portfolio.cash = 0

\* execute_orders filled a Buy that took the cash to exactly zero and, on a
\* later call, rejected an order
C15_Witness ==
    /\ portfolio.cash = 0
    /\ \E k \in 1..Len(portfolio.fills) : portfolio.fills[k].side = "Buy"
    /\ \E k \in 1..Len(exec_log) :
           /\ ~exec_log[k].filled
           /\ \E j \in 1..(k - 1) : exec_log[j].filled
    /\ bar_fills = <<>>

(***************************************************************************)
(* C19: for a Weight order with weight w the lots traded equal             *)
(* floor(((w * equity at current closes) - current market value of the     *)
(* existing position in the symbol) / fill_price / 100), so a Weight order *)
(* on a symbol already held at or above the target value is skipped.  The  *)
(* market value of a position is its lots * 100 * the current close;       *)
(* weights are whole percents.                                             *)
(***************************************************************************)
WeightProbes ==
    {o \in ProbeOrders :
        o.quantity_type = "Weight" /\ o.symbol \in DOMAIN execution_bars(datafeed)}

MarketValueHeld(s) ==
    IF s \in DOMAIN portfolio.positions
    THEN portfolio.positions[s].quantity * 100 * execution_bars(datafeed)[s].close
    ELSE 0

EquityAtCloses == calculate_equity(portfolio, current_prices_of(datafeed))

C19_WeightLots ==
    \A o \in WeightProbes :
        LET fill_price == calculate_fill_price(execution_engine, o.side,
                              execution_bars(datafeed)[o.symbol].close)
            r == execute_order(execution_engine, o, execution_bars(datafeed), portfolio)
        IN  /\ LotsOf(o) =
                   (o.quantity * EquityAtCloses - 100 * MarketValueHeld(o.symbol))
                       \div (fill_price * 10000)
            /\ 100 * MarketValueHeld(o.symbol) >= o.quantity * EquityAtCloses
                   => r.fill = None

(***************************************************************************)
(* C13: when all orders queued for one bar are Sells, or all are Buys, any *)
(* permutation of the add_order calls produces the same set of Fills from  *)
(* execute_all_orders against the same bars and starting portfolio.        *)
(* A Fill is (symbol, side, quantity, price, commission, timestamp).       *)
(***************************************************************************)
Queue == execution_engine.orders

\* the queues the same add_order calls leave when made in another order
Permuted(q) ==
    {[i \in 1..Len(q) |-> q[p[i]]] :
        p \in {f \in [1..Len(q) -> 1..Len(q)] :
                  \A a, b \in 1..Len(q) : f[a] = f[b] => a = b}}

FillOf(f) ==
    [symbol |-> f.symbol, side |-> f.side, quantity |-> f.quantity, price |-> f.price,
     commission |-> f.commission, timestamp |-> f.timestamp]

FillSetOf(q) ==
    LET fills == execute_all_orders([execution_engine EXCEPT !.orders = q],
                                    execution_bars(datafeed), portfolio).fills
    IN  {FillOf(fills[k]) : k \in 1..Len(fills)}

\* the queue holds orders of one side, all added at the current bar
OneSideOneBar ==
    /\ Len(Queue) >= 2
    /\ \A k \in 1..Len(Queue) :
           /\ Queue[k].side = Queue[1].side
           /\ Queue[k].timestamp = Queue[1].timestamp

QueueTotal(f) == SumOver([k \in 1..Len(Queue) |-> f[Queue[k]]], 1..Len(Queue))

JointlyFillable ==
    /\ \A k \in 1..Len(Queue) :
           /\ Queue[k].quantity_type \in {"Count", "Cash"}
           /\ Queue[k].symbol \in DOMAIN execution_bars(datafeed)
           /\ LotsOf(Queue[k]) > 0
    /\ Queue[1].side = "Buy" =>
           QueueTotal([o \in ProbeOrders |->
               CostOf(o) + calculate_commission(execution_engine, CostOf(o), "Buy")])
               <= portfolio.cash
    /\ Queue[1].side = "Sell" =>
           QueueTotal([o \in ProbeOrders |-> LotsOf(o)])
               <= get_available(portfolio, "X", date_naive(Queue[1].timestamp))

PointsPerRun == Len(datafeed.benchmark_timeline)

RunCurve(k) ==
    SubSeq(metrics.equity_curve, (k - 1) * PointsPerRun + 1, k * PointsPerRun)

SecondRunFinished == run = 2 /\ pc = "done"

C12_RerunIdentical ==
    SecondRunFinished =>
        /\ Len(metrics.equity_curve) = 2 * PointsPerRun
        /\ RunCurve(2) = RunCurve(1)

(***************************************************************************)
(* C17: indicator no-look-ahead.  For two bar series of a symbol that      *)
(* agree on all bars with datetime <= T[i], compute_all_indicators yields  *)
(* the same value at timeline index i; and get_indicator_value and         *)
(* get_indicator_value_count never read an index greater than              *)
(* current_index.                                                          *)
(***************************************************************************)
IndKey == <<"ind", "X">>

Computed == IndKey \in DOMAIN indicator_engine.indicator_values

StoredSeries == indicator_engine.indicator_values[IndKey]

BarsOfX == DataFeed_get_all_bars_for_symbol(datafeed, "X")

BarsUpTo(bars, t) == SelectSeq(bars, LAMBDA b : b.datetime <= t)

C17_IndicatorNoLookAhead ==
    /\ Computed =>
           \A i \in 1..Len(datafeed.benchmark_timeline), other \in IndSeries :
               BarsUpTo(other, datafeed.benchmark_timeline[i])
                   = BarsUpTo(BarsOfX, datafeed.benchmark_timeline[i])
               => indicator_series(indicator_engine.indicators["ind"], other,
                                   datafeed.benchmark_timeline)[i]
                      = StoredSeries[i]
    /\ \A k \in IndicatorEngine_get_indicator_value(indicator_engine, "ind", "X").read :
           k <= indicator_engine.current_index
    /\ \A count \in 0..(IndBars + 1) :
           \A k \in IndicatorEngine_get_indicator_value_count(
                        indicator_engine, "ind", "X", count).read :
               k <= indicator_engine.current_index

\* a value is stored at the current index, read by both getters, while X
\* has a bar later than the current datetime
C17_Witness ==
    /\ Computed
    /\ indicator_engine.current_index = 1
    /\ IsSome(IndicatorEngine_get_indicator_value(indicator_engine, "ind", "X").result)
    /\ IndicatorEngine_get_indicator_value_count(indicator_engine, "ind", "X", 2).read = {0, 1}
    /\ \E k \in 1..Len(BarsOfX) : BarsOfX[k].datetime > datafeed.benchmark_timeline[2]

(***************************************************************************)
(* C18: SMA alignment.  For every timeline index i, with j the number of   *)
(* bars of the symbol with datetime <= T[i], the precomputed series holds  *)
(* the mean of the trailing `period` field values ending at bar j-1 when   *)
(* j >= period, and NaN otherwise; a symbol with zero bars or an unknown   *)
(* field yields an all-NaN series of length N.                             *)
(***************************************************************************)
IndDef == indicator_engine.indicators["ind"]

IsSma == IndDef.kind = "RustBuiltin" /\ IndDef.name = "sma"

BarCount(i) == Len(BarsUpTo(BarsOfX, datafeed.benchmark_timeline[i + 1]))

\* the mean of the `period` closes ending at bar j - 1, as [sum, n]
TrailingMean(j, period) ==
    [sum |-> SumOver([k \in 1..Len(BarsOfX) |-> BarsOfX[k].close], (j - period + 1)..j),
     n |-> period]

MaxPyTime == 1
MaxPyBars == 1
MaxPyOrders == 2

\* PyResult<()>
Ok == [ok |-> TRUE, err |-> ""]
Err(msg) == [ok |-> FALSE, err |-> msg]

\* the record py_result keeps of a call: the method, its arguments and
\* what it returned
Returned(method, args, result) ==
    Some([method |-> method, args |-> args, result |-> result])

\* a datetime string: the format it is written in and the instant it names;
\* "other" is a string in neither format ("2024/01/02", "")
DatetimeFormats == {"rfc3339", "naive", "other"}

PyDatetime(fmt, t) == [fmt |-> fmt, tick |-> t]

PyBar(datetime, c) == [datetime |-> datetime, close |-> c]

\* DateTime::parse_from_rfc3339
parse_from_rfc3339(str) ==
    IF str.fmt = "rfc3339" THEN Some(str.tick) ELSE None

\* NaiveDateTime::parse_from_str(_, "%Y-%m-%d %H:%M:%S")
parse_from_str(str) ==
    IF str.fmt = "naive" THEN Some(str.tick) ELSE None

\* impl From<PyBar> for Bar
Bar_from_PyBar(bar, now) ==
    LET rfc == parse_from_rfc3339(bar.datetime)
        naive == parse_from_str(bar.datetime)
        datetime == IF IsSome(rfc) THEN Unwrap(rfc)
                    ELSE IF IsSome(naive) THEN Unwrap(naive)
                    ELSE now
    IN  Bar(datetime, bar.close)

rust_bars(bars, now) == [i \in 1..Len(bars) |-> Bar_from_PyBar(bars[i], now)]

\* PyBacktestEngine::add_market_data
PyBacktestEngine_add_market_data(symbol, bars, now) ==
    /\ datafeed' = DataFeed_add_market_data(datafeed, symbol, rust_bars(bars, now))
    /\ py_result' = Returned("add_market_data", [symbol |-> symbol, bars |-> bars], Ok)

\* PyBacktestEngine::set_benchmark
PyBacktestEngine_set_benchmark(bars, now) ==
    /\ datafeed' = DataFeed_set_benchmark(datafeed, rust_bars(bars, now))
    /\ py_result' = Returned("set_benchmark", [bars |-> bars], Ok)

\* an unknown side taken as a buy
order_side_or_buy(side) ==
    IF side = "sell" THEN Some("Sell") ELSE Some("Buy")

\* the match on side.as_str() of add_order; None is the `_` arm
order_side_of(side) ==
    IF side = "buy" THEN Some("Buy")
    ELSE IF side = "sell" THEN Some("Sell")
    ELSE None

\* the match on quantity_type.as_str() of add_order
qty_type_of(quantity_type) ==
    IF quantity_type = "count" THEN Some("Count")
    ELSE IF quantity_type = "cash" THEN Some("Cash")
    ELSE IF quantity_type = "weight" THEN Some("Weight")
    ELSE None

\* PyBacktestEngine::add_order with the strings of the Python caller
add_order_from_python(symbol, side, quantity, quantity_type, now) ==
    LET order_side == order_side_of(side)
        qty_type == qty_type_of(quantity_type)
        args == [symbol |-> symbol, side |-> side, quantity |-> quantity,
                 quantity_type |-> quantity_type]
    IN  IF ~IsSome(order_side)
        THEN /\ py_result' = Returned("add_order", args, Err("Invalid side"))
             /\ UNCHANGED <<execution_engine, next_id, order_log>>
        ELSE IF ~IsSome(qty_type)
        THEN /\ py_result' = Returned("add_order", args, Err("Invalid quantity_type"))
             /\ UNCHANGED <<execution_engine, next_id, order_log>>
        ELSE /\ PyBacktestEngine_add_order(symbol, Unwrap(order_side), quantity,
                                           Unwrap(qty_type), now)
             /\ py_result' = Returned("add_order", args, Ok)

\* params.get("name").cloned().unwrap_or_else(|| "unknown".to_string())
name_param(params) == IF IsSome(params.name) THEN Unwrap(params.name) ELSE "unknown"

\* the match on indicator_type.as_str() of register_indicator
indicator_def_of(indicator_type, params, lookback_period) ==
    IF indicator_type = "rust_builtin"
    THEN Some(RustBuiltin(name_param(params), params.period, params.field,
                          lookback_period))
    ELSE IF indicator_type = "python_function"
    THEN Some(PythonFunction(name_param(params), lookback_period))
    ELSE None

\* PyBacktestEngine::register_indicator
PyBacktestEngine_register_indicator(name, indicator_type, params, lookback_period) ==
    LET def == indicator_def_of(indicator_type, params, lookback_period)
        args == [name |-> name, indicator_type |-> indicator_type, params |-> params,
                 lookback_period |-> lookback_period]
    IN  IF IsSome(def)
        THEN /\ indicator_engine' =
                    IndicatorEngine_register_indicator(indicator_engine, name, Unwrap(def))
             /\ py_result' = Returned("register_indicator", args, Ok)
        ELSE /\ py_result' = Returned("register_indicator", args,
                                      Err("Unknown indicator type"))
             /\ UNCHANGED indicator_engine

PyBars ==
    {PyBar(PyDatetime(fmt, t), CloseAt(t)) : fmt \in DatetimeFormats, t \in 0..MaxPyTime}

PyBarLists == SeqsUpTo(PyBars, MaxPyBars)

SideStrings == {"buy", "sell", "Buy", "hold"}

QuantityTypeStrings == {"count", "weight", "lots"}

IndicatorTypeStrings == {"rust_builtin", "python_function", "sma"}

PyParams ==
    {[name |-> n, period |-> None, field |-> None] : n \in {None, Some("sma")}}

InitPy ==
    /\ BacktestEngine_new([cash |-> 0, commission_rate |-> 0, min_commission |-> 0,
                           slippage_bps |-> 0, stamp_tax_rate |-> 0, t0_symbols |-> {}])
    /\ datafeed = DataFeed_new
    /\ pc = "py"
    /\ bar_fills = <<>>
    /\ trade_i = 0
    /\ step_log = <<>>
    /\ order_log = <<>>
    /\ exec_log = <<>>
    /\ next_id = 0
    /\ strategy = AnyStrategy
    /\ run = 1
    /\ py_result = None

PyAddMarketData ==
    /\ \E bars \in PyBarLists : PyBacktestEngine_add_market_data("X", bars, Now)
    /\ UNCHANGED <<execution_engine, portfolio, config, strategy, run, indicator_engine,
                   metrics, cached_current_prices, pc, bar_fills, trade_i, step_log,
                   order_log, exec_log, next_id>>

PySetBenchmark ==
    /\ \E bars \in PyBarLists : PyBacktestEngine_set_benchmark(bars, Now)
    /\ UNCHANGED <<execution_engine, portfolio, config, strategy, run, indicator_engine,
                   metrics, cached_current_prices, pc, bar_fills, trade_i, step_log,
                   order_log, exec_log, next_id>>

PyAddOrder ==
    /\ next_id < MaxPyOrders
    /\ \E side \in SideStrings, quantity_type \in QuantityTypeStrings :
           add_order_from_python("X", side, 1, quantity_type, Now)
    /\ UNCHANGED <<datafeed, portfolio, config, strategy, run, indicator_engine, metrics,
                   cached_current_prices, pc, bar_fills, trade_i, step_log, exec_log>>

PyRegisterIndicator ==
    /\ \E indicator_type \in IndicatorTypeStrings, params \in PyParams :
           PyBacktestEngine_register_indicator("ind", indicator_type, params, 1)
    /\ UNCHANGED <<datafeed, execution_engine, portfolio, config, strategy, run, metrics,
                   cached_current_prices, pc, bar_fills, trade_i, step_log, order_log,
                   exec_log, next_id>>

\* the bar ingress calls
NextPyData ==
    \/ PyAddMarketData
    \/ PySetBenchmark

SpecPyData == InitPy /\ [][NextPyData]_vars

\* the calls that take an enumeration as a string
NextPy ==
    \/ PyAddOrder
    \/ PyRegisterIndicator

SpecPy == InitPy /\ [][NextPy]_vars

(***************************************************************************)
(* C21: a datetime string of an ingress bar that is in neither format      *)
(* (RFC 3339, `YYYY-MM-DD HH:MM:SS`) makes add_market_data / set_benchmark *)
(* return an error, and no bar with a substituted datetime is stored.      *)
(***************************************************************************)
Unparseable(str) == str.fmt \notin {"rfc3339", "naive"}

LastCall == Unwrap(py_result)

BadBarCall ==
    /\ IsSome(py_result)
    /\ LastCall.method \in {"add_market_data", "set_benchmark"}
    /\ \E i \in 1..Len(LastCall.args.bars) : Unparseable(LastCall.args.bars[i].datetime)

StoredBars ==
    {datafeed.benchmark_bars[i] : i \in 1..Len(datafeed.benchmark_bars)}
    \cup UNION {{datafeed.market_data[s][i] : i \in 1..Len(datafeed.market_data[s])} :
                s \in DOMAIN datafeed.market_data}

C21_BadDatetimeIsError ==
    BadBarCall =>
        /\ ~LastCall.result.ok
        /\ \A b \in StoredBars : b.datetime # Now

(***************************************************************************)
(* C22: add_order with an invalid side or quantity_type string, and        *)
(* register_indicator with an unknown indicator kind, return an error and  *)
(* leave the order queue and the indicator registry unchanged.             *)
(***************************************************************************)
InvalidOrderCall(c) ==
    /\ c.method = "add_order"
    /\ \/ c.args.side \notin {"buy", "sell"}
       \/ c.args.quantity_type \notin {"count", "cash", "weight"}

InvalidIndicatorCall(c) ==
    /\ c.method = "register_indicator"
    /\ c.args.indicator_type \notin {"rust_builtin", "python_function"}

InvalidCallMade ==
    /\ IsSome(py_result')
    /\ InvalidOrderCall(Unwrap(py_result')) \/ InvalidIndicatorCall(Unwrap(py_result'))

C22_InvalidInputRejected ==
    [][InvalidCallMade =>
           /\ ~Unwrap(py_result').result.ok
           /\ execution_engine'.orders = execution_engine.orders
           /\ indicator_engine'.indicators = indicator_engine.indicators]_vars

\* an invalid add_order call has returned an error with an order in the
\* queue and an indicator in the registry
C22_Witness ==
    /\ IsSome(py_result)
    /\ InvalidOrderCall(LastCall)
    /\ ~LastCall.result.ok
    /\ execution_engine.orders # <<>>
    /\ IndicatorEngine_has_indicators(indicator_engine)

(***************************************************************************)
(* SpecErr: run_backtest with a strategy whose callbacks may raise.  Every *)
(* callback call of run_backtest is followed by `?`: a Python exception    *)
(* makes run_backtest return that PyErr from the place of the call.        *)
(***************************************************************************)
\* the error swallowed: run_backtest goes on as if the callback had returned
after_raise_ignored(callback, fills) ==
    CASE callback = "on_start" -> "loop"
      [] callback = "on_bar" -> after_on_bar(fills)
      [] callback = "on_trade" -> "record_equity"
      [] callback = "on_stop" -> "done"

\* where run_backtest continues when a callback raises: `?` returns the error
after_raise(callback, fills) == "error"

InitRun ==
    /\ EngineSetUp(Timelines, {FALSE})
    /\ strategy = AnyStrategy
    /\ run = 1
    /\ py_result = None
    /\ pc = "on_start"

\* the callback in progress raises
CallbackRaises ==
    /\ InCallback
    /\ pc' = after_raise(pc, bar_fills)
    /\ py_result' = Returned("run_backtest",
                             [callback |-> pc, bar |-> datafeed.current_index,
                              trade |-> trade_i],
                             Err("raised"))
    /\ UNCHANGED <<datafeed, execution_engine, portfolio, config, strategy, run,
                   indicator_engine, metrics, cached_current_prices, bar_fills, trade_i,
                   step_log, order_log, exec_log, next_id>>

NextErr ==
    \/ StrategyAddOrder
    \/ OnStartReturn
    \/ LoopExecute
    \/ OnBarReturn
    \/ OnTradeReturn
    \/ RecordEquity
    \/ Advance
    \/ LoopExit
    \/ OnStopReturn
    \/ CallbackRaises

SpecErr == InitRun /\ [][NextErr]_vars

(***************************************************************************)
(* C23: when on_start, on_bar, on_trade or on_stop raises, run_backtest    *)
(* returns that error at once: no further callback is called, no further   *)
(* bar is executed or recorded, and no result is returned.                 *)
(***************************************************************************)
Raised == IsSome(py_result) /\ LastCall.method = "run_backtest"

\* the last step run_backtest had taken when the callback was called
LastStepBefore(callback, bar, trade) ==
    CASE callback = "on_start" -> None
      [] callback = "on_bar" -> Some("execute")
      [] callback = "on_trade" -> Some(IF trade = 0 THEN "on_bar" ELSE "on_trade")
      [] callback = "on_stop" -> IF bar = 0 THEN None ELSE Some("advance")

StoppedAtCall ==
    LET c == LastCall.args
        last == LastStepBefore(c.callback, c.bar, c.trade)
    IN  /\ pc = "error"
        /\ ~LastCall.result.ok
        /\ IF IsSome(last)
           THEN step_log # <<>> /\ step_log[Len(step_log)].step = Unwrap(last)
           ELSE step_log = <<>>
        /\ datafeed.current_index = c.bar
        /\ Len(metrics.equity_curve) = c.bar

C23_CallbackErrorStopsRun ==
    /\ [](Raised => StoppedAtCall)
    /\ [](pc = "done" => ~Raised)
    /\ [][Raised => UNCHANGED vars]_vars

\* on_trade raised on the first fill of a bar after the first, with an
\* order still in the queue
C23_Witness ==
    /\ Raised
    /\ LastCall.args.callback = "on_trade"
    /\ LastCall.args.bar > 0
    /\ Len(bar_fills) > 0
    /\ execution_engine.orders # <<>>

(***************************************************************************)
(* SpecCursor: a feed set up once (add_market_data for the symbol and      *)
(* set_benchmark, in either order) and then stepped by next() only.        *)
(* SpecReset: the same feed stepped by next() and reset().                 *)
(***************************************************************************)
MaxCursorBars == 3

CursorBarLists == {BarsAt(times) : times \in SeqsUpTo(0..MaxFeedTime, MaxCursorBars)}

\* the feed after the initial setup
FreshFeed(bars, benchmark_bars) ==
    DataFeed_set_benchmark(DataFeed_add_market_data(DataFeed_new, "X", bars),
                           benchmark_bars)

InitCursor ==
    /\ BacktestEngine_new([cash |-> 0, commission_rate |-> 0, min_commission |-> 0,
                           slippage_bps |-> 0, stamp_tax_rate |-> 0, t0_symbols |-> {}])
    /\ \E bars \in CursorBarLists, benchmark_bars \in CursorBarLists :
           \/ datafeed = FreshFeed(bars, benchmark_bars)
           \/ datafeed = DataFeed_add_market_data(
                             DataFeed_set_benchmark(DataFeed_new, benchmark_bars), "X", bars)
    /\ pc = "feed"
    /\ bar_fills = <<>>
    /\ trade_i = 0
    /\ step_log = <<>>
    /\ order_log = <<>>
    /\ exec_log = <<>>
    /\ next_id = 0
    /\ strategy = AnyStrategy
    /\ run = 1
    /\ py_result = None

NextCursor == FeedNext

SpecCursor == InitCursor /\ [][NextCursor]_vars

NextReset ==
    \/ FeedNext
    \/ FeedReset

SpecReset == InitCursor /\ [][NextReset]_vars

(***************************************************************************)
(* C24: cursor invariant.  After the initial setup and any number of       *)
(* next() calls, while current_index < N: every symbol with a cursor c has *)
(* bars[c].datetime <= T[current_index] and c is the last bar or           *)
(* bars[c+1].datetime > T[current_index]; a symbol has no cursor exactly   *)
(* when none of its bars has datetime <= T[current_index]; and no cursor   *)
(* decreases across next().                                                *)
(***************************************************************************)
HasCursor(s) == s \in DOMAIN datafeed.symbol_indices

Cursor(s) == datafeed.symbol_indices[s]

BarsOf(s) == datafeed.market_data[s]

CursorAtLatest(s) ==
    /\ Cursor(s) < Len(BarsOf(s))
    /\ BarsOf(s)[Cursor(s) + 1].datetime <= CurrentTime
    /\ \/ Cursor(s) + 1 = Len(BarsOf(s))
       \/ BarsOf(s)[Cursor(s) + 2].datetime > CurrentTime

NoBarYet(s) == \A k \in 1..Len(BarsOf(s)) : BarsOf(s)[k].datetime > CurrentTime

CursorsValid ==
    DataFeed_has_next(datafeed) =>
        \A s \in DOMAIN datafeed.market_data :
            /\ HasCursor(s) => CursorAtLatest(s)
            /\ ~HasCursor(s) <=> NoBarYet(s)

CursorsKept ==
    \A s \in DOMAIN datafeed.symbol_indices :
        /\ s \in DOMAIN datafeed'.symbol_indices
        /\ datafeed'.symbol_indices[s] >= datafeed.symbol_indices[s]

C24_CursorInvariant == []CursorsValid /\ [][CursorsKept]_vars

\* at index 1 the cursor stands on the second bar, which next() moved it to
C24_Witness ==
    /\ datafeed.current_index = 1
    /\ DataFeed_has_next(datafeed)
    /\ HasCursor("X")
    /\ Cursor("X") = 1
    /\ BarsOf("X")[2].datetime > datafeed.benchmark_timeline[1]

(***************************************************************************)
(* C25: reset() re-seeds every cursor.  From any state reached by next()   *)
(* calls, after reset() current_index is 0 and get_current_bar returns for *)
(* every symbol the latest bar with datetime <= T[0], or None when the     *)
(* symbol has no such bar, exactly as in a freshly set-up feed.            *)
(***************************************************************************)
SameAsFresh(df) ==
    LET fresh == FreshFeed(df.market_data["X"], df.benchmark_bars)
    IN  /\ df.current_index = 0
        /\ \A s \in Symbols :
               DataFeed_get_current_bar(df, s) = DataFeed_get_current_bar(fresh, s)

C25_ResetReseeds == [][FeedReset => SameAsFresh(datafeed')]_vars

(***************************************************************************)
(* C26: a symbol whose first bar is later than T[0] is not tradable        *)
(* (get_current_bar is None, the symbol absent from get_current_bars) at   *)
(* every index whose time is earlier than its first bar, and is tradable   *)
(* from the first index at or after that bar on; across gaps it surfaces   *)
(* the last bar at or before the current time.                             *)
(***************************************************************************)
StartsLate(s) ==
    /\ datafeed.benchmark_timeline # <<>>
    /\ BarsOf(s) # <<>>
    /\ BarsOf(s)[1].datetime > datafeed.benchmark_timeline[1]

\* the last bar of s at or before the current time
LatestBar(s) ==
    BarsOf(s)[CHOOSE k \in 1..Len(BarsOf(s)) :
                  /\ BarsOf(s)[k].datetime <= CurrentTime
                  /\ \A j \in (k + 1)..Len(BarsOf(s)) : BarsOf(s)[j].datetime > CurrentTime]

Tradable(df, s) == IsSome(DataFeed_get_current_bar(df, s))

LateSymbolView ==
    \A s \in DOMAIN datafeed.market_data :
        (DataFeed_has_next(datafeed) /\ StartsLate(s)) =>
            IF CurrentTime < BarsOf(s)[1].datetime
            THEN /\ ~Tradable(datafeed, s)
                 /\ s \notin DOMAIN DataFeed_get_current_bars(datafeed)
            ELSE /\ DataFeed_get_current_bar(datafeed, s) = Some(LatestBar(s))
                 /\ s \in DOMAIN DataFeed_get_current_bars(datafeed)
                 /\ DataFeed_get_current_bars(datafeed)[s] = LatestBar(s)

StaysTradable ==
    \A s \in DOMAIN datafeed.market_data :
        (Tradable(datafeed, s) /\ DataFeed_has_next(datafeed')) => Tradable(datafeed', s)

C26_LateSymbolTradability == []LateSymbolView /\ [][StaysTradable]_vars

\* a late symbol has become tradable and, one index later, still shows its
\* first bar because its second bar is later than the current time
C26_Witness ==
    /\ DataFeed_has_next(datafeed)
    /\ datafeed.current_index = 2
    /\ StartsLate("X")
    /\ Len(BarsOf("X")) = 2
    /\ BarsOf("X")[1].datetime <= datafeed.benchmark_timeline[2]
    /\ BarsOf("X")[2].datetime > CurrentTime
    /\ DataFeed_get_current_bar(datafeed, "X") = Some(BarsOf("X")[1])

(***************************************************************************)
(* SpecLive: run_backtest as in Spec, on an engine with a full data set,   *)
(* with the steps of its body taken one after another: run_backtest is     *)
(* sequential code, so when every callback returns it keeps going.  The    *)
(* add_order calls of the strategy are the strategy's choice and are not   *)
(* required.                                                               *)
(***************************************************************************)
\* the steps of the body other than the execute step
DriverStep ==
    \/ OnStartReturn
    \/ OnBarReturn
    \/ OnTradeReturn
    \/ RecordEquity
    \/ Advance
    \/ LoopExit
    \/ OnStopReturn

\* the execute step seen from pc.  execute_orders is total, so LoopExecute is
\* enabled exactly when pc = "loop" and has_next holds, and it is the only
\* step from "loop" to "on_bar": weak fairness on this move is weak fairness
\* on LoopExecute.
ExecuteMoves ==
    /\ pc = "loop"
    /\ DataFeed_has_next(datafeed)
    /\ pc' = "on_bar"

\* the set-up engines whose symbol settles on the trade date
InitLive == InitRun /\ config.t0_symbols = {"X"}

SpecLive == InitLive /\ [][Next]_vars /\ WF_vars(DriverStep) /\ WF_pc(ExecuteMoves)

(***************************************************************************)
(* C27: has_next() holds exactly when current_index < N; each next() with  *)
(* has_next increases current_index by exactly one and current_index never *)
(* exceeds N; so, every callback returning, the driver loop terminates     *)
(* after exactly N iterations, with on_start called once before the loop,  *)
(* on_bar exactly N times and on_stop once after it.                       *)
(***************************************************************************)
N == Len(datafeed.benchmark_timeline)

StepCount(step) == Len(SelectSeq(step_log, LAMBDA e : e.step = step))

IndexInRange ==
    /\ datafeed.current_index <= N
    /\ DataFeed_has_next(datafeed) <=> datafeed.current_index < N

NextAddsOne ==
    (pc = "next" /\ pc' = "loop") =>
        /\ DataFeed_has_next(datafeed)
        /\ datafeed'.current_index = datafeed.current_index + 1

\* on_start is in progress in the first state only and is never called
\* again; on_stop is called once, after N iterations; the run ends from it
CallbackOrder ==
    /\ pc' = "on_start" => pc = "on_start" /\ step_log' = <<>>
    /\ (pc' = "on_stop" /\ pc # "on_stop") =>
           /\ pc = "loop"
           /\ StepCount("execute") = N
           /\ StepCount("on_bar") = N
           /\ StepCount("advance") = N
    /\ pc = "on_stop" => pc' \in {"on_stop", "done"}
    /\ pc = "done" => pc' = "done"
    /\ (pc' = "done" /\ pc # "done") => pc = "on_stop"

C27_LoopTerminates ==
    /\ []IndexInRange
    /\ [][NextAddsOne /\ CallbackOrder]_vars
    /\ <>(pc = "done" /\ StepCount("on_bar") = N /\ datafeed.current_index = N)

\* the run has ended after N = NumBars on_bar calls, some of them with fills
C27_Witness ==
    /\ pc = "done"
    /\ N = NumBars
    /\ StepCount("on_bar") = NumBars
    /\ StepCount("on_trade") > 0

(***************************************************************************)
(* C28: within one bar of the driver loop every get_current_bars /         *)
(* get_current_bar query between the execute step and next() returns the   *)
(* same bars, the prices record_equity uses are the closes of exactly      *)
(* those bars, and the cached views change only when next() (or reset())   *)
(* changes current_index.  Checked under Spec.                             *)
(***************************************************************************)
\* what the two queries return
BarView(df) ==
    [bars |-> DataFeed_get_current_bars(df),
     bar |-> [s \in Symbols |-> DataFeed_get_current_bar(df, s)]]

\* get_current_bar and get_current_bars show the same bar of each symbol
QueriesAgree ==
    \A s \in Symbols :
        DataFeed_get_current_bar(datafeed, s) =
            IF s \in DOMAIN DataFeed_get_current_bars(datafeed)
            THEN Some(DataFeed_get_current_bars(datafeed)[s])
            ELSE None

ViewCloses ==
    [s \in DOMAIN BarView(datafeed).bars |-> BarView(datafeed).bars[s].close]

LastPoint(curve) == curve[Len(curve)]

SameViewWithinBar ==
    datafeed'.current_index = datafeed.current_index =>
        /\ BarView(datafeed') = BarView(datafeed)
        /\ IsSome(datafeed.cached_current_bars) =>
               datafeed'.cached_current_bars = datafeed.cached_current_bars
        /\ IsSome(cached_current_prices) => cached_current_prices' = cached_current_prices

RecordStep == pc = "record_equity" /\ pc' = "next"

RecordUsesView ==
    RecordStep =>
        /\ Len(metrics'.equity_curve) = Len(metrics.equity_curve) + 1
        /\ LastPoint(metrics'.equity_curve).equity = calculate_equity(portfolio, ViewCloses)
        /\ cached_current_prices' =
               Some([idx |-> datafeed.current_index, prices |-> ViewCloses])

C28_StableBarView == []QueriesAgree /\ [][SameViewWithinBar /\ RecordUsesView]_vars

\* equity has been recorded at a bar after the first with a position held,
\* the close of that bar differing from the close of the symbol's first bar
C28_Witness ==
    /\ pc = "next"
    /\ datafeed.current_index > 0
    /\ "X" \in DOMAIN portfolio.positions
    /\ "X" \in DOMAIN ViewCloses
    /\ ViewCloses["X"] # datafeed.market_data["X"][1].close
    /\ LastPoint(metrics.equity_curve).equity = calculate_equity(portfolio, ViewCloses)
    /\ LastPoint(metrics.equity_curve).equity # portfolio.cash

(***************************************************************************)
(* metrics_recorder.rs: calculate_max_drawdown_with_period.  Equity values *)
(* are integers and a drawdown is the fraction [num, den] of two of them,  *)
(* compared by cross-multiplication.                                       *)
(***************************************************************************)
Frac(n, d) == [num |-> n, den |-> d]

FracGt(a, b) == a.num * b.den > b.num * a.den

FracEq(a, b) == a.num * b.den = b.num * a.den

\* the `for point in &self.equity_curve` loop; st holds its `let mut`s
RECURSIVE drawdown_loop(_, _, _)
drawdown_loop(curve, i, st) ==
    IF i > Len(curve) THEN st
    ELSE LET point == curve[i]
         IN  IF point.equity > st.max_equity
             THEN drawdown_loop(curve, i + 1,
                      [st EXCEPT !.max_equity = point.equity,
                                 !.max_equity_time = point.datetime,
                                 !.current_dd_start = None])
             ELSE LET dd_start == IF IsSome(st.current_dd_start)
                                  THEN st.current_dd_start
                                  ELSE Some(st.max_equity_time)
                      drawdown == Frac(st.max_equity - point.equity, st.max_equity)
                  IN  IF FracGt(drawdown, st.max_dd)
                      THEN drawdown_loop(curve, i + 1,
                               [st EXCEPT !.current_dd_start = dd_start,
                                          !.max_dd = drawdown,
                                          !.max_dd_start = dd_start,
                                          !.max_dd_end = Some(point.datetime)])
                      ELSE drawdown_loop(curve, i + 1,
                               [st EXCEPT !.current_dd_start = dd_start])

\* the result (max_dd, max_dd_start, max_dd_end)
DrawdownPeriod(dd, start, end) == [dd |-> dd, start |-> start, end |-> end]

\* every drawdown measured from the first point of the curve, the later
\* peaks ignored
max_drawdown_from_first_point(m) ==
    IF m.equity_curve = <<>> THEN DrawdownPeriod(Frac(0, 1), None, None)
    ELSE LET curve == m.equity_curve
             below == {j \in 1..Len(curve) : curve[j].equity < curve[1].equity}
         IN  IF below = {} THEN DrawdownPeriod(Frac(0, 1), None, None)
             ELSE LET j == CHOOSE x \in below :
                               \A y \in below : curve[x].equity <= curve[y].equity
                  IN  DrawdownPeriod(Frac(curve[1].equity - curve[j].equity, curve[1].equity),
                                     Some(curve[1].datetime), Some(curve[j].datetime))

\* MetricsRecorder::calculate_max_drawdown_with_period
calculate_max_drawdown_with_period(m) ==
    IF m.equity_curve = <<>> THEN DrawdownPeriod(Frac(0, 1), None, None)
    ELSE LET st == drawdown_loop(m.equity_curve, 1,
                       [max_equity |-> m.equity_curve[1].equity,
                        max_equity_time |-> m.equity_curve[1].datetime,
                        max_dd |-> Frac(0, 1),
                        max_dd_start |-> None,
                        max_dd_end |-> None,
                        current_dd_start |-> None])
         IN  DrawdownPeriod(st.max_dd, st.max_dd_start, st.max_dd_end)

(***************************************************************************)
(* SpecCurve: record_equity called on a new MetricsRecorder with any       *)
(* positive equity values at increasing datetimes.                         *)
(***************************************************************************)
MaxCurve == 5

EquityValues == {80, 90, 100, 120, 130}

InitMetrics ==
    /\ BacktestEngine_new([cash |-> 0, commission_rate |-> 0, min_commission |-> 0,
                           slippage_bps |-> 0, stamp_tax_rate |-> 0, t0_symbols |-> {}])
    /\ datafeed = DataFeed_new
    /\ pc = "metrics"
    /\ bar_fills = <<>>
    /\ trade_i = 0
    /\ step_log = <<>>
    /\ order_log = <<>>
    /\ exec_log = <<>>
    /\ next_id = 0
    /\ strategy = AnyStrategy
    /\ run = 1
    /\ py_result = None

\* the fields of the engine that no MetricsRecorder method touches
MetricsFrame ==
    UNCHANGED <<datafeed, execution_engine, portfolio, config, strategy, run, py_result,
                indicator_engine, cached_current_prices, pc, bar_fills, trade_i, step_log,
                order_log, exec_log, next_id>>

CurveRecordEquity ==
    /\ Len(metrics.equity_curve) < MaxCurve
    /\ \E equity \in EquityValues :
           metrics' = MetricsRecorder_record_equity(metrics, Len(metrics.equity_curve), equity)
    /\ MetricsFrame

NextCurve == CurveRecordEquity

SpecCurve == InitMetrics /\ [][NextCurve]_vars

(***************************************************************************)
(* C29: for a non-empty equity curve with positive values,                 *)
(* calculate_max_drawdown_with_period returns dd = the maximum over i <= j *)
(* of (E_i - E_j) / E_i; when dd > 0, t_start is the time of the running   *)
(* peak in force at the trough and t_end the time of the trough, with      *)
(* t_start < t_end and E(t_start) >= every equity value up to t_end; an    *)
(* empty curve returns (0, None, None).                                    *)
(***************************************************************************)
Curve == metrics.equity_curve

E(i) == Curve[i].equity

Drop(i, j) == Frac(E(i) - E(j), E(i))

\* the position of the point recorded at datetime t
PointAt(t) == CHOOSE k \in 1..Len(Curve) : Curve[k].datetime = t

C29_MaxDrawdown ==
    LET r == calculate_max_drawdown_with_period(metrics)
    IN  IF Curve = <<>>
        THEN r = DrawdownPeriod(Frac(0, 1), None, None)
        ELSE /\ \E i, j \in 1..Len(Curve) : i <= j /\ FracEq(r.dd, Drop(i, j))
             /\ \A i, j \in 1..Len(Curve) : i <= j => ~FracGt(Drop(i, j), r.dd)
             /\ r.dd.num > 0 =>
                    /\ IsSome(r.start) /\ IsSome(r.end)
                    /\ Unwrap(r.start) < Unwrap(r.end)
                    /\ FracEq(r.dd, Drop(PointAt(Unwrap(r.start)), PointAt(Unwrap(r.end))))
                    /\ \A k \in 1..PointAt(Unwrap(r.end)) :
                           E(PointAt(Unwrap(r.start))) >= E(k)

\* the curve 100, 120, 90, 130, 80: drawdown 50/130 from the fourth point to
\* the fifth
C29_Witness ==
    /\ Len(Curve) = 5
    /\ [i \in 1..5 |-> E(i)] = <<100, 120, 90, 130, 80>>
    /\ calculate_max_drawdown_with_period(metrics) =
           DrawdownPeriod(Frac(50, 130), Some(3), Some(4))

(***************************************************************************)
(* metrics_recorder.rs: calculate_trade_stats.  A lot entry of the FIFO    *)
(* queue (the tuple (qty, price)) is [qty, price].                         *)
(***************************************************************************)
\* the `while remaining > 0.0 && !entry.is_empty()` loop of a Sell
RECURSIVE consume_entries(_, _, _)
consume_entries(entry, remaining, total_cost) ==
    IF remaining > 0 /\ entry # <<>>
    THEN LET qty == entry[1].qty
             price == entry[1].price
             used == Min(remaining, qty)
         IN  consume_entries(IF used >= qty
                             THEN Tail(entry)
                             ELSE <<[qty |-> qty - used, price |-> price]>> \o Tail(entry),
                             remaining - used,
                             total_cost + used * price * 100)
    ELSE [entry |-> entry, total_cost |-> total_cost]

\* positions.entry(symbol).or_insert_with(Vec::new)
entry_of(positions, symbol) ==
    IF symbol \in DOMAIN positions THEN positions[symbol] ELSE <<>>

\* one iteration of `for fill in &self.fills`; st is [positions, profits, losses]
trade_step(st, fill) ==
    LET entry == entry_of(st.positions, fill.symbol)
    IN  IF fill.side = "Buy"
        THEN [st EXCEPT !.positions =
                 MapInsert(st.positions, fill.symbol,
                           Append(entry, [qty |-> fill.quantity, price |-> fill.price]))]
        ELSE LET c == consume_entries(entry, fill.quantity, 0)
                 revenue == fill.quantity * fill.price * 100
                 pnl == revenue - c.total_cost
                 matched == [st EXCEPT !.positions =
                                MapInsert(st.positions, fill.symbol, c.entry)]
             IN  IF c.total_cost > 0
                 THEN IF pnl > 0
                      THEN [matched EXCEPT !.profits = Append(@, pnl)]
                      ELSE [matched EXCEPT !.losses = Append(@, 0 - pnl)]
                 ELSE matched

RECURSIVE trade_loop(_, _)
trade_loop(fills, st) ==
    IF fills = <<>> THEN st ELSE trade_loop(Tail(fills), trade_step(st, Head(fills)))

RECURSIVE SumSeq(_)
SumSeq(s) == IF s = <<>> THEN 0 ELSE Head(s) + SumSeq(Tail(s))

\* f64::INFINITY, as a fraction
Infinity == Frac(1, 0)

\* MetricsRecorder::calculate_trade_stats; the result carries the profits and
\* losses vectors next to (win_rate, profit_loss_ratio)
calculate_trade_stats(m) ==
    LET st == trade_loop(m.fills, [positions |-> EmptyMap, profits |-> <<>>, losses |-> <<>>])
        total_trades == Len(st.profits) + Len(st.losses)
        avg_profit == IF st.profits # <<>>
                      THEN Frac(SumSeq(st.profits), Len(st.profits)) ELSE Frac(0, 1)
        avg_loss == IF st.losses # <<>>
                    THEN Frac(SumSeq(st.losses), Len(st.losses)) ELSE Frac(0, 1)
    IN  [win_rate |-> IF total_trades > 0
                      THEN Frac(Len(st.profits), total_trades) ELSE Frac(0, 1),
         profit_loss_ratio |->
             IF avg_loss.num > 0
             THEN Frac(avg_profit.num * avg_loss.den, avg_profit.den * avg_loss.num)
             ELSE IF avg_profit.num > 0 THEN Infinity ELSE Frac(0, 1),
         profits |-> st.profits,
         losses |-> st.losses]

(***************************************************************************)
(* SpecTrades: record_fill called on a new MetricsRecorder with the fills  *)
(* of an execution: Buys at any price, Sells of no more lots than are      *)
(* held.                                                                   *)
(***************************************************************************)
MaxFills == 3

FillSymbols == {"X", "Y"}

FillPrices == {10, 20, 30}

\* the lots of a symbol the fills so far leave in the position
RECURSIVE HeldLots(_, _)
HeldLots(fills, symbol) ==
    IF fills = <<>> THEN 0
    ELSE HeldLots(Tail(fills), symbol)
         + (IF Head(fills).symbol # symbol THEN 0
            ELSE IF Head(fills).side = "Buy" THEN Head(fills).quantity
            ELSE 0 - Head(fills).quantity)

\* MetricsRecorder::record_fill
MetricsRecorder_record_fill(m, fill) == [m EXCEPT !.fills = Append(@, fill)]

TradesRecordFill ==
    /\ Len(metrics.fills) < MaxFills
    /\ \E symbol \in FillSymbols, side \in {"Buy", "Sell"}, quantity \in 1..2,
          price \in FillPrices :
           /\ side = "Sell" => quantity <= HeldLots(metrics.fills, symbol)
           /\ metrics' = MetricsRecorder_record_fill(metrics,
                  [symbol |-> symbol, side |-> side, quantity |-> quantity,
                   price |-> price, commission |-> 0,
                   timestamp |-> Len(metrics.fills), order_id |-> Len(metrics.fills)])
    /\ MetricsFrame

NextTrades == TradesRecordFill

SpecTrades == InitMetrics /\ [][NextTrades]_vars

(***************************************************************************)
(* C30: trade statistics match Sells FIFO against the earlier Buys of the  *)
(* same symbol, and each matched segment (one Buy lot entry consumed,      *)
(* fully or partly, by one Sell) contributes its own pnl =                 *)
(* (sell_price - buy_price) * used * 100 as one win or one loss; win_rate  *)
(* = wins / (wins + losses) over those segments.                           *)
(***************************************************************************)
\* the pnl of the segments one Sell of `remaining` lots at sell_price cuts
\* from the head of the lots
RECURSIVE SegmentPnls(_, _, _)
SegmentPnls(lots, remaining, sell_price) ==
    IF remaining = 0 \/ lots = <<>> THEN <<>>
    ELSE LET used == Min(remaining, lots[1].qty)
         IN  <<(sell_price - lots[1].price) * used * 100>>
             \o SegmentPnls(Tail(lots), remaining - used, sell_price)

\* the lots of `symbol` left unmatched after the fills
RECURSIVE OpenLots(_, _)
OpenLots(fills, symbol) ==
    IF fills = <<>> THEN <<>>
    ELSE LET before == OpenLots(SubSeq(fills, 1, Len(fills) - 1), symbol)
             fill == fills[Len(fills)]
         IN  IF fill.symbol # symbol THEN before
             ELSE IF fill.side = "Buy"
                  THEN Append(before, [qty |-> fill.quantity, price |-> fill.price])
                  ELSE consume_entries(before, fill.quantity, 0).entry

\* the pnl of every matched segment, in the order of the fills
RECURSIVE AllSegmentPnls(_)
AllSegmentPnls(fills) ==
    IF fills = <<>> THEN <<>>
    ELSE LET earlier == SubSeq(fills, 1, Len(fills) - 1)
             fill == fills[Len(fills)]
         IN  AllSegmentPnls(earlier)
             \o (IF fill.side = "Sell"
                 THEN SegmentPnls(OpenLots(earlier, fill.symbol), fill.quantity, fill.price)
                 ELSE <<>>)

Wins(pnls) == Len(SelectSeq(pnls, LAMBDA x : x > 0))

Losses(pnls) == Len(SelectSeq(pnls, LAMBDA x : x <= 0))

C30_SegmentStats ==
    LET pnls == AllSegmentPnls(metrics.fills)
        r == calculate_trade_stats(metrics)
    IN  /\ Len(r.profits) = Wins(pnls)
        /\ Len(r.losses) = Losses(pnls)
        /\ Len(pnls) > 0 => FracEq(r.win_rate, Frac(Wins(pnls), Len(pnls)))

(***************************************************************************)
(* metrics_recorder.rs: calculate_stats and calculate_sharpe_ratio.  An    *)
(* f64 quotient is the fraction [num, den]; a division by zero gives the   *)
(* fractions with den = 0: 1/0 is +inf, -1/0 is -inf and 0/0 is NaN.       *)
(***************************************************************************)
\* the f64 `a / b` of two integer-valued operands
f64_div(a, b) ==
    IF b = 0 THEN Frac(IF a > 0 THEN 1 ELSE IF a < 0 THEN -1 ELSE 0, 0)
    ELSE Frac(a, b)

\* Duration::num_days of `last - first`
num_days(first, last) == (last - first) \div TicksPerDay

\* the `for i in 1..self.equity_curve.len()` loop: the returns vector
RECURSIVE sharpe_returns(_, _)
sharpe_returns(curve, i) ==
    IF i > Len(curve) THEN <<>>
    ELSE LET prev_equity == curve[i - 1].equity
             curr_equity == curve[i].equity
         IN  (IF prev_equity > 0
              THEN <<Frac(curr_equity - prev_equity, prev_equity)>>
              ELSE <<>>) \o sharpe_returns(curve, i + 1)

\* the product of the denominators of the returns
RECURSIVE DenProduct(_)
DenProduct(returns) ==
    IF returns = <<>> THEN 1 ELSE Head(returns).den * DenProduct(Tail(returns))

\* MetricsRecorder::calculate_sharpe_ratio.  The result is the record
\* [mean, variance] that stands for (mean / sqrt(variance)) * sqrt(252), both
\* fields exact fractions; the three early returns give mean = 0 over
\* variance = 1.
calculate_sharpe_ratio(m) ==
    LET zero == [mean |-> Frac(0, 1), variance |-> Frac(1, 1)]
    IN  IF Len(m.equity_curve) < 2 THEN zero
        ELSE LET returns == sharpe_returns(m.equity_curve, 2)
                 n == Len(returns)
                 D == DenProduct(returns)
                 \* returns[k] over the common denominator D
                 scaled == [k \in 1..n |-> returns[k].num * (D \div returns[k].den)]
                 mean_return == Frac(SumSeq(scaled), D * n)
                 \* (r - mean_return) over the denominator D * n
                 dev == [k \in 1..n |-> scaled[k] * n - SumSeq(scaled)]
                 variance == Frac(SumSeq([k \in 1..n |-> dev[k] * dev[k]]),
                                  D * n * D * n * n)
             IN  IF returns = <<>> THEN zero
                 ELSE IF variance.num = 0 THEN zero
                 ELSE [mean |-> mean_return, variance |-> variance]

\* MetricsRecorder::calculate_stats: total_return, annualized_return and
\* sharpe_ratio.  annualized_return is [powf, value, days]: with powf it
\* stands for value.powf(365.25 / days) - 1.0, without for value itself.
calculate_stats(m) ==
    IF m.equity_curve = <<>>
    THEN [total_return |-> Frac(0, 1),
          annualized_return |-> [powf |-> FALSE, value |-> Frac(0, 1), days |-> 0],
          sharpe_ratio |-> [mean |-> Frac(0, 1), variance |-> Frac(1, 1)]]
    ELSE LET curve == m.equity_curve
             initial_equity == curve[1].equity
             final_equity == curve[Len(curve)].equity
             total_return == f64_div(final_equity - initial_equity, initial_equity)
             days == IF Len(curve) > 1
                     THEN num_days(curve[1].datetime, curve[Len(curve)].datetime)
                     ELSE 1
             annualized_return ==
                 IF days > 0
                 THEN [powf |-> TRUE, value |-> f64_div(final_equity, initial_equity),
                       days |-> days]
                 ELSE [powf |-> FALSE, value |-> total_return, days |-> days]
         IN  [total_return |-> total_return,
              annualized_return |-> annualized_return,
              sharpe_ratio |-> calculate_sharpe_ratio(m)]

(***************************************************************************)
(* SpecStats: record_equity called on a new MetricsRecorder with any       *)
(* non-negative equity values, zero included, at datetimes that do not     *)
(* decrease.                                                               *)
(***************************************************************************)
MaxStatsCurve == 4

StatsEquityValues == {0, 1, 2}

\* the ticks between two recorded points: none, one, a day
StatsGaps == {0, 1, TicksPerDay}

StatsRecordEquity ==
    /\ Len(metrics.equity_curve) < MaxStatsCurve
    /\ \E equity \in StatsEquityValues, gap \in StatsGaps :
           LET datetime == IF metrics.equity_curve = <<>> THEN 0
                           ELSE LastPoint(metrics.equity_curve).datetime + gap
           IN  metrics' = MetricsRecorder_record_equity(metrics, datetime, equity)
    /\ MetricsFrame

NextStats == StatsRecordEquity

SpecStats == InitMetrics /\ [][NextStats]_vars

(***************************************************************************)
(* C31: calculate_stats gives 0 for every statistic hit by a numeric       *)
(* degeneracy: total_return, annualized_return and sharpe_ratio on an      *)
(* empty curve; sharpe_ratio on a curve of fewer than two points or with   *)
(* returns that do not deviate; total_return and annualized_return on a    *)
(* curve whose initial equity is zero.                                     *)
(***************************************************************************)
IsFinite(v) == v.den # 0

IsZero(v) == v.num = 0 /\ v.den # 0

\* the annualized return is 0: the value itself, or a base of 1 under powf
AnnualizedIsZero(a) ==
    IF a.powf THEN IsFinite(a.value) /\ a.value.num = a.value.den
    ELSE IsZero(a.value)

SharpeIsZero(s) == IsZero(s.mean) /\ IsFinite(s.variance) /\ s.variance.num # 0

\* every return of the curve is the same number
NoDeviation(curve) ==
    LET returns == sharpe_returns(curve, 2)
    IN  \A a, b \in 1..Len(returns) : FracEq(returns[a], returns[b])

C31_DegeneraciesAreZero ==
    LET curve == metrics.equity_curve
        stats == calculate_stats(metrics)
    IN  /\ curve = <<>> =>
               /\ IsZero(stats.total_return)
               /\ AnnualizedIsZero(stats.annualized_return)
               /\ SharpeIsZero(stats.sharpe_ratio)
        /\ (Len(curve) < 2 \/ NoDeviation(curve)) => SharpeIsZero(stats.sharpe_ratio)
        /\ (curve # <<>> /\ curve[1].equity = 0) =>
               /\ IsZero(stats.total_return)
               /\ AnnualizedIsZero(stats.annualized_return)

(***************************************************************************)
(* C32: get_indicator_value returns series[current_index], and None when   *)
(* that value is NaN or current_index is past the series;                  *)
(* get_indicator_value_count(count >= 1) returns the values at the indices *)
(* max(0, current_index - count + 1) .. current_index in order: the raw    *)
(* value, NaN included, when count = 1, and the values that are not NaN    *)
(* when count > 1, None if none is left.                                   *)
(***************************************************************************)
\* the counts asked for
QueryCounts == 1..(IndBars + 1)

\* the values of a series at the 0-based indices lo..hi, in order
ValuesAt(series, lo, hi) == [k \in 1..(hi - lo + 1) |-> series[lo + k]]

WithoutNaN(values) == SelectSeq(values, LAMBDA v : ~is_nan(v))

C32_IndicatorQueries ==
    \A key \in DOMAIN indicator_engine.indicator_values :
        LET series == indicator_engine.indicator_values[key]
            i == indicator_engine.current_index
            value == IndicatorEngine_get_indicator_value(
                         indicator_engine, key[1], key[2]).result
        IN  /\ i >= Len(series) => value = None
            /\ i < Len(series) =>
                   /\ value = IF is_nan(series[i + 1]) THEN None ELSE Some(series[i + 1])
                   /\ \A count \in QueryCounts :
                          LET window == ValuesAt(series, Max(0, i - count + 1), i)
                              values == IndicatorEngine_get_indicator_value_count(
                                            indicator_engine, key[1], key[2], count).result
                          IN  IF count = 1 THEN values = Some(<<series[i + 1]>>)
                              ELSE IF WithoutNaN(window) = <<>> THEN values = None
                              ELSE values = Some(WithoutNaN(window))

\* at index 1 of a series that starts with NaN: the window of two keeps the
\* one value that is not NaN
C32_Witness ==
    /\ Computed
    /\ indicator_engine.current_index = 1
    /\ Len(StoredSeries) >= 2
    /\ is_nan(StoredSeries[1])
    /\ ~is_nan(StoredSeries[2])
    /\ IndicatorEngine_get_indicator_value(indicator_engine, "ind", "X").result
           = Some(StoredSeries[2])
    /\ IndicatorEngine_get_indicator_value_count(indicator_engine, "ind", "X", 2).result
           = Some(<<StoredSeries[2]>>)
    /\ IndicatorEngine_get_indicator_value_count(indicator_engine, "ind", "X", 1).result
           = Some(<<StoredSeries[2]>>)

(***************************************************************************)
(* engine.rs: PyBacktestEngine::get_equity, the portfolio valued at the    *)
(* closes of the current bars.                                             *)
(***************************************************************************)
PyBacktestEngine_get_equity == calculate_equity(portfolio, current_prices_of(datafeed))

(***************************************************************************)
(* C33: calculate_equity(prices) is cash plus quantity * price * 100 over  *)
(* the held symbols that have a price, and a held symbol without a price   *)
(* counts with its last known market value, the value at the most recent   *)
(* bar at which it had a price, not with zero.                             *)
(***************************************************************************)
\* the close of the most recent bar that was the current bar of s
LastKnownClose(s) == datafeed.market_data[s][datafeed.symbol_indices[s] + 1].close

\* a held symbol that has no current bar
HeldWithoutPrice(s) ==
    /\ s \in DOMAIN portfolio.positions
    /\ s \notin DOMAIN current_prices_of(datafeed)

C33_EquityFallback ==
    PyBacktestEngine_get_equity =
        portfolio.cash
        + SumOver([s \in DOMAIN portfolio.positions |->
                      IF HeldWithoutPrice(s)
                      THEN portfolio.positions[s].quantity * LastKnownClose(s) * 100
                      ELSE portfolio.positions[s].quantity
                               * current_prices_of(datafeed)[s] * 100],
                  DOMAIN portfolio.positions)

(***************************************************************************)
(* SpecBatch: add_order, execute_orders and next of PyBacktestEngine       *)
(* called in any order on an engine that holds two symbols, X and Y, with  *)
(* Count orders large enough to use up the cash.                           *)
(***************************************************************************)
\* most add_order calls in one behaviour of SpecBatch
MaxBatchOrders == 4

BatchOrders ==
    {[symbol |-> "X", side |-> "Buy", quantity |-> 4],
     [symbol |-> "Y", side |-> "Buy", quantity |-> 2],
     [symbol |-> "X", side |-> "Sell", quantity |-> 4]}

InitBatch ==
    /\ \E t0 \in {{}, {"X"}}, tl \in ApiTimelines :
           /\ BacktestEngine_new([cash |-> 5000, commission_rate |-> 1, min_commission |-> 5,
                                  slippage_bps |-> 1000, stamp_tax_rate |-> 1,
                                  t0_symbols |-> t0])
           /\ datafeed = DataFeed_set_benchmark(
                  DataFeed_add_market_data(
                      DataFeed_add_market_data(DataFeed_new, "X", BarsAt(tl)),
                      "Y", BarsAt(tl)),
                  BarsAt(tl))
    /\ bar_fills = <<>>
    /\ trade_i = 0
    /\ step_log = <<>>
    /\ order_log = <<>>
    /\ exec_log = <<>>
    /\ next_id = 0
    /\ strategy = AnyStrategy
    /\ run = 1
    /\ py_result = None
    /\ pc = "api"

BatchAddOrder ==
    /\ next_id < MaxBatchOrders
    /\ \E o \in BatchOrders :
           PyBacktestEngine_add_order(o.symbol, o.side, o.quantity, "Count", Now)
    /\ UNCHANGED <<datafeed, portfolio, config, strategy, run, py_result, indicator_engine, metrics,
                   cached_current_prices, pc, bar_fills, trade_i, step_log, exec_log>>

NextBatch ==
    \/ BatchAddOrder
    \/ ApiExecuteOrders
    \/ ApiNext

SpecBatch == InitBatch /\ [][NextBatch]_vars

(***************************************************************************)
(* C34: when a batch contains a Buy added before a Sell and the Buy is     *)
(* affordable only with the proceeds of the Sell (cash before the batch <  *)
(* cost plus commission of the Buy <= cash after the Sell), both orders    *)
(* fill in that batch, the Sell first.                                     *)
(***************************************************************************)
\* cost plus commission of a queued Buy
BuyTotal(o) == CostOf(o) + calculate_commission(execution_engine, CostOf(o), "Buy")

\* the cash after the Sell, executed on the portfolio the batch starts from
CashAfterSell(o) ==
    execute_order(execution_engine, o, execution_bars(datafeed), portfolio).portfolio.cash

\* the Buy at position b of the queue was added before the Sell at
\* position s and is affordable only with the proceeds of that Sell
NeedsProceeds(b, s) ==
    /\ b < s
    /\ Queue[b].side = "Buy"
    /\ Queue[s].side = "Sell"
    /\ Queue[b].symbol \in DOMAIN execution_bars(datafeed)
    /\ portfolio.cash < BuyTotal(Queue[b])
    /\ BuyTotal(Queue[b]) <= CashAfterSell(Queue[s])

\* the batch fills both orders, the Sell before the Buy
BothFillSellFirst(b, s) ==
    LET fills == execute_all_orders(execution_engine, execution_bars(datafeed),
                                    portfolio).fills
    IN  \E i, j \in 1..Len(fills) :
            /\ i < j
            /\ fills[i].order_id = Queue[s].id
            /\ fills[j].order_id = Queue[b].id

ExecutionStep == pc = "loop" /\ pc' = "on_bar"

\* the step that calls engine.next()
SweepStep == pc = "next" /\ pc' = "loop"

SameBut(field) ==
    /\ field # "cash" => portfolio'.cash = portfolio.cash
    /\ field # "positions" => portfolio'.positions = portfolio.positions
    /\ field # "buy_records" => portfolio'.buy_records = portfolio.buy_records
    /\ portfolio'.fills = portfolio.fills
    /\ portfolio'.t0_symbols = portfolio.t0_symbols

PortfolioFrame ==
    /\ SweepStep => SameBut("buy_records")
    /\ ~(ExecutionStep \/ SweepStep) => portfolio' = portfolio

C35_PortfolioFrame == [][PortfolioFrame]_vars

\* next() has emptied the buy records of a held T+1 symbol, with fills on
\* the list and a position held
C35_Witness ==
    /\ pc = "loop"
    /\ datafeed.current_index >= 1
    /\ "X" \in DOMAIN portfolio.positions
    /\ "X" \in DOMAIN portfolio.buy_records
    /\ portfolio.buy_records["X"] = <<>>
    /\ portfolio.fills # <<>>
    /\ portfolio.cash # config.cash
    /\ Len(metrics.equity_curve) >= 1

(***************************************************************************)
(* C36: in every state reached through BacktestEngine::next and            *)
(* BacktestEngine::reset the current_index of the IndicatorEngine equals   *)
(* the current_index of the DataFeed, so an indicator query reads its      *)
(* series at the timeline position whose datetime get_current_datetime     *)
(* returns.                                                                *)
(***************************************************************************)
CursorsInSync == indicator_engine.current_index = datafeed.current_index

\* the position of the timeline an indicator query reads at
QueriedPosition ==
    IndicatorEngine_get_indicator_value(indicator_engine, "ind", "X").read

QueryAtCurrentDatetime ==
    (Computed /\ DataFeed_has_next(datafeed)) =>
        /\ QueriedPosition = {datafeed.current_index}
        /\ \A i \in QueriedPosition :
               DataFeed_get_current_datetime(datafeed)
                   = Some(datafeed.benchmark_timeline[i + 1])

C36_CursorSync == CursorsInSync /\ QueryAtCurrentDatetime

\* after next() calls, with the series computed: both cursors at the last bar
C36_Witness ==
    /\ Computed
    /\ datafeed.current_index = Len(datafeed.benchmark_timeline) - 1
    /\ datafeed.current_index >= 1
    /\ indicator_engine.current_index = datafeed.current_index
    /\ QueriedPosition = {datafeed.current_index}

(***************************************************************************)
(* SpecPhased: the methods of DataFeed on a new feed, add_market_data and  *)
(* set_benchmark called in any order and any number of times, but only     *)
(* before the first next() or reset().                                     *)
(***************************************************************************)
\* next() or reset() has been called with effect: the index has moved or
\* the cache has been filled
Started(df) == df.current_index > 0 \/ IsSome(df.cached_current_bars)

PhasedSetBenchmark == ~Started(datafeed) /\ FeedSetBenchmark

PhasedAddMarketData == ~Started(datafeed) /\ FeedAddMarketData

NextPhased ==
    \/ PhasedSetBenchmark
    \/ PhasedAddMarketData
    \/ FeedNext
    \/ FeedReset

SpecPhased == InitFeed /\ [][NextPhased]_vars

(***************************************************************************)
(* C37: provided no add_market_data or set_benchmark call follows the      *)
(* first next() or reset(), in every state with current_index < N          *)
(* get_current_bars() is the map s -> get_current_bar(s) over exactly the  *)
(* symbols for which get_current_bar(s) is Some, whether it is served from *)
(* the cache or recomputed.                                                *)
(***************************************************************************)
\* the symbols get_current_bar returns a bar for
SymbolsWithBar == {s \in Symbols : IsSome(DataFeed_get_current_bar(datafeed, s))}

BarsOneByOne == [s \in SymbolsWithBar |-> Unwrap(DataFeed_get_current_bar(datafeed, s))]

ServedFromCache ==
    /\ IsSome(datafeed.cached_current_bars)
    /\ Unwrap(datafeed.cached_current_bars).idx = datafeed.current_index

MapAgreesWithSingle == DataFeed_get_current_bars(datafeed) = BarsOneByOne

C37_CurrentBarsAgree == DataFeed_has_next(datafeed) => MapAgreesWithSingle

\* after a next() that advanced the cursor of X: the map comes from the
\* cache and holds the bar get_current_bar returns
C37_Witness ==
    /\ DataFeed_has_next(datafeed)
    /\ datafeed.current_index >= 1
    /\ ServedFromCache
    /\ SymbolsWithBar = {"X"}
    /\ datafeed.symbol_indices["X"] >= 1
    /\ DataFeed_get_current_bars(datafeed) = BarsOneByOne

(***************************************************************************)
(* C38: in a run of the driver every order enqueued in on_start or in the  *)
(* callbacks of the bars 0..N-2 is handled by execute_order exactly once,  *)
(* filled or rejected, and an order enqueued in the callbacks of the last  *)
(* bar N-1 or in on_stop is never executed: it has no fill and is still in *)
(* the queue when run_backtest returns.                                    *)
(***************************************************************************)
OrderIds == 0..(Len(order_log) - 1)

\* the calls of execute_order on the order, as positions of exec_log
ExecutionsOf(id) == {k \in 1..Len(exec_log) : exec_log[k].id = id}

\* enqueued in on_start or in a callback of a bar before the last
EnqueuedBeforeLastBar(id) ==
    \/ order_log[id + 1].cb = "on_start"
    \/ /\ order_log[id + 1].cb \in {"on_bar", "on_trade"}
       /\ order_log[id + 1].bar <= N - 2

\* enqueued in a callback of the last bar or in on_stop
EnqueuedAtEnd(id) ==
    \/ order_log[id + 1].cb = "on_stop"
    \/ /\ order_log[id + 1].cb \in {"on_bar", "on_trade"}
       /\ order_log[id + 1].bar = N - 1

InQueue(id) ==
    \E k \in 1..Len(execution_engine.orders) : execution_engine.orders[k].id = id

HasFill(id) == \E k \in 1..Len(portfolio.fills) : portfolio.fills[k].order_id = id

C38_LastBarOrdersStranded ==
    \A id \in OrderIds :
        /\ EnqueuedBeforeLastBar(id) \/ EnqueuedAtEnd(id)
        /\ Cardinality(ExecutionsOf(id)) <= 1
        /\ HasFill(id) => \E k \in ExecutionsOf(id) : exec_log[k].filled
        /\ EnqueuedAtEnd(id) => ExecutionsOf(id) = {} /\ ~HasFill(id) /\ InQueue(id)
        /\ (RunFinished /\ EnqueuedBeforeLastBar(id)) =>
               Cardinality(ExecutionsOf(id)) = 1 /\ ~InQueue(id)

\* a finished run with an order of a bar before the last filled, an order
\* of the last bar and an order of on_stop left in the queue
C38_Witness ==
    /\ RunFinished
    /\ \E a, b, c \in OrderIds :
           /\ order_log[a + 1].cb = "on_bar" /\ order_log[a + 1].bar = N - 2
           /\ HasFill(a)
           /\ order_log[b + 1].cb = "on_bar" /\ order_log[b + 1].bar = N - 1
           /\ order_log[c + 1].cb = "on_stop"
           /\ InQueue(b) /\ InQueue(c)
           /\ Len(execution_engine.orders) = 2

(***************************************************************************)
(* C39: the timestamp of every Fill is the timeline datetime at which its  *)
(* order was enqueued, not the datetime of the bar whose close priced it:  *)
(* an order of on_bar or on_trade of bar i is priced at bar i+1 and        *)
(* stamped T[i], an order of on_start is priced at bar 0 and stamped T[0]. *)
(***************************************************************************)
T(i) == datafeed.benchmark_timeline[i + 1]

\* the index of the timeline at which the order was executed
ExecutedAtBar(id) ==
    exec_log[CHOOSE k \in 1..Len(exec_log) : exec_log[k].id = id].at

FillStamp(f) ==
    LET enqueued == OrderOf(f.order_id)
        priced == ExecutedAtBar(f.order_id)
    IN  /\ f.timestamp = T(enqueued.bar)
        /\ f.price = calculate_fill_price(execution_engine, f.side,
                                          CloseOfBar(f.symbol, priced))
        /\ FromBarCallback(f.order_id) =>
               /\ priced = enqueued.bar + 1
               /\ f.timestamp < T(priced)
        /\ enqueued.cb = "on_start" =>
               /\ enqueued.bar = 0
               /\ priced = 0
               /\ f.timestamp = T(0)
        /\ enqueued.cb # "on_stop"

C39_FillStampedAtEnqueue ==
    \A k \in 1..Len(portfolio.fills) : FillStamp(portfolio.fills[k])

\* a fill of an on_start order and a fill of an on_bar order of bar 1, the
\* second priced at the close of bar 2 and stamped T[1]
C39_Witness ==
    \E a, b \in 1..Len(portfolio.fills) :
        LET f == portfolio.fills[a]
            g == portfolio.fills[b]
        IN  /\ OrderOf(f.order_id).cb = "on_start"
            /\ f.timestamp = T(0)
            /\ OrderOf(g.order_id).cb = "on_bar"
            /\ OrderOf(g.order_id).bar = 1
            /\ g.timestamp = T(1)
            /\ g.timestamp # T(2)
            /\ CloseOfBar(g.symbol, 2) # CloseOfBar(g.symbol, 1)
            /\ g.price = calculate_fill_price(execution_engine, g.side,
                                              CloseOfBar(g.symbol, 2))

(***************************************************************************)
(* SpecAlign: SpecInd without reset(): indicators registered and computed  *)
(* on a freshly set-up engine that is stepped by next() only.              *)
(***************************************************************************)
NextAlign ==
    \/ IndRegister
    \/ IndCompute
    \/ IndNext

SpecAlign == InitInd /\ [][NextAlign]_vars

\* the value of bar_idx in compute_all_indicators after the while loop of
\* timeline position i
RECURSIVE bar_idx_at(_, _, _)
bar_idx_at(all_bars, timeline, i) ==
    advance_bar_idx(all_bars,
                    IF i = 0 THEN 0 ELSE bar_idx_at(all_bars, timeline, i - 1),
                    timeline[i + 1])

(***************************************************************************)
(* C40: the indicator alignment and the data feed agree on the current     *)
(* bar: at every timeline index i the bar index j - 1 that                 *)
(* compute_all_indicators uses at position i is the DataFeed cursor of the *)
(* symbol after i next() calls from a fresh setup, and where the DataFeed  *)
(* has no cursor for the symbol the indicator value at i is NaN.           *)
(***************************************************************************)
\* j of position current_index
AlignedBarCount == bar_idx_at(BarsOfX, datafeed.benchmark_timeline, datafeed.current_index)

C40_AlignmentMatchesCursor ==
    DataFeed_has_next(datafeed) =>
        /\ HasCursor("X") <=> AlignedBarCount >= 1
        /\ HasCursor("X") => Cursor("X") = AlignedBarCount - 1
        /\ (~HasCursor("X") /\ Computed) =>
               is_nan(StoredSeries[datafeed.current_index + 1])

\* after next() calls: a value that is not NaN, read from the bar the feed's
\* cursor is on, which is not the bar numbered like the timeline position
C40_Witness ==
    /\ Computed
    /\ DataFeed_has_next(datafeed)
    /\ datafeed.current_index >= 1
    /\ HasCursor("X")
    /\ Cursor("X") = AlignedBarCount - 1
    /\ Cursor("X") # datafeed.current_index
    /\ ~is_nan(StoredSeries[datafeed.current_index + 1])

====
